---- MODULE Spec2Model ----
(***************************************************************************)
(* A model of the quantbot paper-trading bot:                              *)
(*   - the simulated ledger  _SimBroker            (src/broker.py)         *)
(*   - the Broker facade     Broker                (src/broker.py)         *)
(*   - the trade log         db.persist_trade      (src/db.py)             *)
(*   - the run loop          main                  (src/run_bot.py)        *)
(*   - the tick and signal   Runner                (src/runner.py)         *)
(*   - the live broker       _AlpacaBroker         (src/broker.py)         *)
(*                                                                         *)
(* Money and prices are integers (whole currency units); an average entry  *)
(* price is an exact fraction avgN/avgD in lowest terms.  A price of None  *)
(* is the value NoPrice.                                                   *)
(***************************************************************************)
EXTENDS Integers, Sequences, FiniteSets, TLC

(***************************************************************************)
(* Bounds of the model.                                                    *)
(***************************************************************************)
MaxInitCash == 4
MaxQty == 2
MaxCalls == 2
MaxErrors == 12
MaxTicks == 4
\* ticks of the history near its window
MaxWindowTicks == 3
\* the longest history the signal computation is checked on
MaxLen == 4
\* the largest retries argument of _fetch_latest_ohlc_yf (its default is 3)
MaxRetries == 3

\* ticks of the run loop when it drives the Runner
MaxBotTicks == 2

\* largest magnitude, in ten-thousandths, of the prices quantized around zero
MaxUnits == 160
\* the Runner's windows (SHORT and LONG of the configuration)
SHORT == 1
LONG == 2

(***************************************************************************)
(* Program constants.                                                      *)
(***************************************************************************)
NoPrice == -1
BASE_BACKOFF == 5
MAX_BACKOFF == 120
ERRORS_TO_DOUBLE == 2
POLL_INTERVAL_SECONDS == 30
\* np.nan
NaN == -2
\* _SimBroker's default initial_cash
SIM_DEFAULT_CASH == 100000
\* ALLOC_PCT = 0.10 = ALLOC_NUM / ALLOC_DEN
ALLOC_NUM == 1
ALLOC_DEN == 10
\* SLIPPAGE_PCT = 0.0005 = SLIPPAGE_NUM / SLIPPAGE_DEN
SLIPPAGE_NUM == 1
SLIPPAGE_DEN == 2000
COMMISSION == 1
\* the floor of Runner._max_history
HISTORY_FLOOR == 365

VARIABLES
    cash,        \* _SimBroker.cash
    positions,   \* _SimBroker.positions: symbol -> (qty, avg_price)
    trades,      \* rows of the trades table, oldest first
    calls,       \* number of place_order calls made so far
    last,        \* the last place_order call: what its caller observed
    mode,        \* main(loop_once): "loop" or "once"
    pc,          \* where main is
    running,     \* run_bot.running, the stop flag (FALSE = stop)
    error_count, \* main's error_count
    backoff,     \* main's backoff
    slept,       \* main's slept
    closed,      \* number of runner.close() calls
    lastTick,    \* how the last runner.step() ended: "ok", "error", "kbd"
    exitBy,      \* how the loop was left: "stop", "kbd", "escape"
    impl,        \* Broker._impl: "SIM" or "ALPACA" ("none" before Broker())
    env,         \* MODE, ALPACA_KEY, ALPACA_SECRET and the Alpaca client library
    history,     \* Runner.history: rows (ts, close), oldest first
    last_signal, \* Runner.last_signal
    now,         \* the clock pd.Timestamp.now() reads
    tick,        \* the last Runner.step(): what it computed and did
    calc         \* the last call of a helper function: its arguments and result

simVars == <<cash, positions, trades, calls, last>>

loopVars == <<mode, pc, running, error_count, backoff, slept, closed, lastTick, exitBy>>

runnerVars == <<impl, env, history, last_signal, now, tick, calc>>

vars == <<cash, positions, trades, calls, last,
          mode, pc, running, error_count, backoff, slept, closed, lastTick, exitBy,
          impl, env, history, last_signal, now, tick, calc>>

(***************************************************************************)
(* Helpers.                                                                *)
(***************************************************************************)
Min(a, b) == IF a <= b THEN a ELSE b

Max(a, b) == IF a >= b THEN a ELSE b

RECURSIVE GCD(_, _)
GCD(a, b) == IF b = 0 THEN a ELSE GCD(b, a % b)

\* the fraction n/d (d > 0, n >= 0) in lowest terms; 0 is 0/1
Frac(n, d) == IF n = 0 THEN [n |-> 0, d |-> 1]
              ELSE [n |-> n \div GCD(n, d), d |-> d \div GCD(n, d)]

\* str.upper() on the strings the model passes
Upper(s) ==
    CASE s = "aapl" -> "AAPL"
      [] s = "msft" -> "MSFT"
      [] s = "buy"  -> "BUY"
      [] s = "sell" -> "SELL"
      [] OTHER      -> s

\* str.lower() on the strings the model passes
Lower(s) ==
    CASE s = "BUY"  -> "buy"
      [] s = "SELL" -> "sell"
      [] s = "HOLD" -> "hold"
      [] OTHER      -> s

\* the arguments place_order is called with
SymbolArgs == {"AAPL", "aapl", "MSFT"}
SideArgs == {"BUY", "sell", "HOLD"}
PriceArgs == {NoPrice, 0, 1, 2}
QtyArgs == (-1)..MaxQty
FeeArgs == {0, 2}

\* dict.get(symbol, (0, 0.0))
GetPosition(pos, symbol) ==
    IF symbol \in DOMAIN pos THEN pos[symbol]
    ELSE [qty |-> 0, avgN |-> 0, avgD |-> 1]

\* self.positions[symbol] = p
SetPosition(pos, symbol, p) ==
    [s \in (DOMAIN pos) \cup {symbol} |-> IF s = symbol THEN p ELSE pos[s]]

\* self.positions.pop(symbol, None)
PopPosition(pos, symbol) ==
    [s \in (DOMAIN pos) \ {symbol} |-> pos[s]]

NoRes == [symbol |-> "", side |-> "", qty |-> 0, filled_qty |-> 0,
          filled_avg_price |-> NoPrice, status |-> "none"]

(***************************************************************************)
(* _SimBroker.place_order, as a function of the ledger and the arguments.  *)
(* The result names the outcome ("filled", or the exception raised), the   *)
(* ledger after the call and the result dict.                              *)
(***************************************************************************)
Raised(c, pos, exc, why) ==
    [outcome |-> exc, err |-> why, cash |-> c, positions |-> pos, res |-> NoRes]

\* SimBuy with the position written before the cash check
SimBuy_WriteBeforeCheck(c, pos, symbol, price, qty, fees) ==
    IF price = NoPrice THEN Raised(c, pos, "RuntimeError", "price")
    ELSE LET cost    == price * qty + fees
             prev    == GetPosition(pos, symbol)
             new_qty == prev.qty + qty
             new_avg == Frac(prev.qty * prev.avgN + price * qty * prev.avgD,
                             prev.avgD * new_qty)
             written == SetPosition(pos, symbol,
                            [qty |-> new_qty, avgN |-> new_avg.n, avgD |-> new_avg.d])
         IN IF cost > c THEN Raised(c, written, "RuntimeError", "cash")
            ELSE [outcome   |-> "filled",
                  err       |-> "",
                  cash      |-> c - cost,
                  positions |-> written,
                  res       |-> [symbol |-> symbol, side |-> "BUY", qty |-> qty,
                                 filled_qty |-> qty, filled_avg_price |-> price,
                                 status |-> "filled"]]

\* SimBuy with the average entry price set to the price of the last fill
SimBuy_AvgIsFillPrice(c, pos, symbol, price, qty, fees) ==
    IF price = NoPrice THEN Raised(c, pos, "RuntimeError", "price")
    ELSE LET cost == price * qty + fees IN
         IF cost > c THEN Raised(c, pos, "RuntimeError", "cash")
         ELSE LET prev    == GetPosition(pos, symbol)
                  new_qty == prev.qty + qty
              IN [outcome   |-> "filled",
                  err       |-> "",
                  cash      |-> c - cost,
                  positions |-> SetPosition(pos, symbol,
                                   [qty |-> new_qty, avgN |-> price, avgD |-> 1]),
                  res       |-> [symbol |-> symbol, side |-> "BUY", qty |-> qty,
                                 filled_qty |-> qty, filled_avg_price |-> price,
                                 status |-> "filled"]]

\* the BUY branch, after the qty check
SimBuy(c, pos, symbol, price, qty, fees) ==
    IF price = NoPrice THEN Raised(c, pos, "RuntimeError", "price")
    ELSE LET cost == price * qty + fees IN
         IF cost > c THEN Raised(c, pos, "RuntimeError", "cash")
         ELSE LET prev    == GetPosition(pos, symbol)
                  new_qty == prev.qty + qty
                  \* (prev_qty*prev_avg + price*qty) / new_qty
                  new_avg == Frac(prev.qty * prev.avgN + price * qty * prev.avgD,
                                  prev.avgD * new_qty)
              IN [outcome   |-> "filled",
                  err       |-> "",
                  cash      |-> c - cost,
                  positions |-> SetPosition(pos, symbol,
                                   [qty |-> new_qty, avgN |-> new_avg.n, avgD |-> new_avg.d]),
                  res       |-> [symbol |-> symbol, side |-> "BUY", qty |-> qty,
                                 filled_qty |-> qty, filled_avg_price |-> price,
                                 status |-> "filled"]]

\* SimSell without the clamp to the held quantity
SimSell_NoClamp(c, pos, symbol, price, qty, fees) ==
    LET prev     == GetPosition(pos, symbol)
        sell_qty == qty
    IN IF prev.qty <= 0 THEN Raised(c, pos, "RuntimeError", "shares")
       ELSE IF price = NoPrice THEN Raised(c, pos, "RuntimeError", "price")
       ELSE LET proceeds == price * sell_qty - fees
                new_qty  == prev.qty - sell_qty
            IN [outcome   |-> "filled",
                err       |-> "",
                cash      |-> c + proceeds,
                positions |-> IF new_qty = 0 THEN PopPosition(pos, symbol)
                              ELSE SetPosition(pos, symbol,
                                       [qty |-> new_qty, avgN |-> prev.avgN, avgD |-> prev.avgD]),
                res       |-> [symbol |-> symbol, side |-> "SELL", qty |-> qty,
                               filled_qty |-> sell_qty, filled_avg_price |-> price,
                               status |-> "filled"]]

\* SimSell that keeps the entry of a position sold down to zero
SimSell_KeepZero(c, pos, symbol, price, qty, fees) ==
    LET prev     == GetPosition(pos, symbol)
        sell_qty == Min(qty, prev.qty)
    IN IF sell_qty <= 0 THEN Raised(c, pos, "RuntimeError", "shares")
       ELSE IF price = NoPrice THEN Raised(c, pos, "RuntimeError", "price")
       ELSE LET proceeds == price * sell_qty - fees
                new_qty  == prev.qty - sell_qty
            IN [outcome   |-> "filled",
                err       |-> "",
                cash      |-> c + proceeds,
                positions |-> SetPosition(pos, symbol,
                                  [qty |-> new_qty, avgN |-> prev.avgN, avgD |-> prev.avgD]),
                res       |-> [symbol |-> symbol, side |-> "SELL", qty |-> qty,
                               filled_qty |-> sell_qty, filled_avg_price |-> price,
                               status |-> "filled"]]

\* SimSell with the average entry price of the rest set to the sale price
SimSell_AvgReset(c, pos, symbol, price, qty, fees) ==
    LET prev     == GetPosition(pos, symbol)
        sell_qty == Min(qty, prev.qty)
    IN IF sell_qty <= 0 THEN Raised(c, pos, "RuntimeError", "shares")
       ELSE IF price = NoPrice THEN Raised(c, pos, "RuntimeError", "price")
       ELSE LET proceeds == price * sell_qty - fees
                new_qty  == prev.qty - sell_qty
            IN [outcome   |-> "filled",
                err       |-> "",
                cash      |-> c + proceeds,
                positions |-> IF new_qty = 0 THEN PopPosition(pos, symbol)
                              ELSE SetPosition(pos, symbol,
                                       [qty |-> new_qty, avgN |-> price, avgD |-> 1]),
                res       |-> [symbol |-> symbol, side |-> "SELL", qty |-> qty,
                               filled_qty |-> sell_qty, filled_avg_price |-> price,
                               status |-> "filled"]]

\* the SELL branch, after the qty check
SimSell(c, pos, symbol, price, qty, fees) ==
    LET prev     == GetPosition(pos, symbol)
        sell_qty == Min(qty, prev.qty)
    IN IF sell_qty <= 0 THEN Raised(c, pos, "RuntimeError", "shares")
       ELSE IF price = NoPrice THEN Raised(c, pos, "RuntimeError", "price")
       ELSE LET proceeds == price * sell_qty - fees
                new_qty  == prev.qty - sell_qty
            IN [outcome   |-> "filled",
                err       |-> "",
                cash      |-> c + proceeds,
                positions |-> IF new_qty = 0 THEN PopPosition(pos, symbol)
                              ELSE SetPosition(pos, symbol,
                                       [qty |-> new_qty, avgN |-> prev.avgN, avgD |-> prev.avgD]),
                res       |-> [symbol |-> symbol, side |-> "SELL", qty |-> qty,
                               filled_qty |-> sell_qty, filled_avg_price |-> price,
                               status |-> "filled"]]

SimOrder(c, pos, symbolArg, sideArg, price, qty, fees) ==
    LET symbol == Upper(symbolArg)
        side   == Upper(sideArg)
    IN IF qty <= 0 THEN Raised(c, pos, "RuntimeError", "qty")
       ELSE IF side = "BUY" THEN SimBuy(c, pos, symbol, price, qty, fees)
       ELSE IF side = "SELL" THEN SimSell(c, pos, symbol, price, qty, fees)
       ELSE Raised(c, pos, "ValueError", "side")

(***************************************************************************)
(* db.persist_trade as place_order calls it: one row appended, or an       *)
(* exception (dbOk = FALSE) that place_order swallows.                     *)
(***************************************************************************)
TradeRow(res, price, fees) ==
    [symbol     |-> res.symbol,
     side       |-> res.side,
     qty        |-> res.filled_qty,
     \* float(filled_price or price or 0.0)
     price      |-> IF res.filled_avg_price \notin {NoPrice, 0} THEN res.filled_avg_price
                    ELSE IF price \notin {NoPrice, 0} THEN price
                    ELSE 0,
     fees       |-> fees,
     order_type |-> IF price = NoPrice THEN "market" ELSE "limit",
     status     |-> res.status]

\* persist_trade that writes over the newest row
PersistTrade_Overwrites(log, row, dbOk) ==
    IF ~dbOk THEN log
    ELSE IF log = <<>> THEN <<row>>
    ELSE [log EXCEPT ![Len(log)] = row]

\* db.persist_trade: INSERT INTO trades, or an exception and no row
PersistTrade(log, row, dbOk) == IF dbOk THEN Append(log, row) ELSE log

\* db.get_trades: ORDER BY id DESC LIMIT ?  (SQLite reads a negative LIMIT as none)
GetTrades(log, limit) ==
    LET n == IF limit < 0 \/ limit > Len(log) THEN Len(log) ELSE limit
    IN [i \in 1..n |-> log[Len(log) - i + 1]]

\* place_order with the exception of a failed persist_trade reaching the caller
BestEffort_Propagates(r, dbOk) ==
    IF r.outcome = "filled" /\ ~dbOk
    THEN [r EXCEPT !.outcome = "OperationalError", !.err = "db", !.res = NoRes]
    ELSE r

\* try: db.persist_trade(...) except Exception: pass; return res -- what
\* place_order hands back once the order r is done, whatever persist_trade did
BestEffort(r, dbOk) == r

(***************************************************************************)
(* What the caller of place_order observes: the outcome ("filled" or the   *)
(* exception raised, with the check that raised it), the result dict, the  *)
(* fees passed with a filled order, and whether persist_trade was called.  *)
(***************************************************************************)
CallRecord(via, fees, r) ==
    [via |-> via, outcome |-> r.outcome, err |-> r.err, res |-> r.res,
     fees |-> IF r.outcome = "filled" THEN fees ELSE 0,
     persistTried |-> (r.outcome = "filled")]

NoCall ==
    [via |-> "none", outcome |-> "none", err |-> "", res |-> NoRes,
     fees |-> 0, persistTried |-> FALSE]

(***************************************************************************)
(* _SimBroker.place_order called directly on the ledger.                   *)
(***************************************************************************)
SimPlaceOrder(symbol, side, price, qty, fees, dbOk) ==
    /\ calls < MaxCalls
    /\ LET r == SimOrder(cash, positions, symbol, side, price, qty, fees) IN
         /\ cash' = r.cash
         /\ positions' = r.positions
         /\ trades' = IF r.outcome = "filled"
                      THEN PersistTrade(trades, TradeRow(r.res, price, fees), dbOk)
                      ELSE trades
         /\ last' = CallRecord("sim", fees, BestEffort(r, dbOk))
    /\ calls' = calls + 1
    /\ UNCHANGED loopVars
    /\ UNCHANGED runnerVars

(***************************************************************************)
(* Broker.place_order with the simulated implementation selected.  The     *)
(* facade forwards fees, stop_price and take_price as keyword arguments;   *)
(* a keyword the callee does not declare is a TypeError raised before the  *)
(* callee's body runs.                                                     *)
(***************************************************************************)
SimPlaceOrderKeywords == {"fees"}

FacadeForwardedKeywords == {"fees", "stop_price", "take_price"}

Binds(declared, passed) == passed \subseteq declared

FacadeSimOrder(c, pos, symbol, side, price, qty, fees) ==
    IF Binds(SimPlaceOrderKeywords, FacadeForwardedKeywords)
    THEN SimOrder(c, pos, symbol, side, price, qty, fees)
    ELSE Raised(c, pos, "TypeError", "keyword")

BrokerPlaceOrder(symbol, side, price, qty, fees, dbOk) ==
    /\ calls < MaxCalls
    /\ LET r == FacadeSimOrder(cash, positions, symbol, side, price, qty, fees) IN
         /\ cash' = r.cash
         /\ positions' = r.positions
         /\ trades' = IF r.outcome = "filled"
                      THEN PersistTrade(trades, TradeRow(r.res, price, fees), dbOk)
                      ELSE trades
         /\ last' = CallRecord("broker", fees, BestEffort(r, dbOk))
    /\ calls' = calls + 1
    /\ UNCHANGED loopVars
    /\ UNCHANGED runnerVars

(***************************************************************************)
(* The simulated ledger under any sequence of orders, from any initial     *)
(* cash in 0..MaxInitCash.                                                 *)
(***************************************************************************)
\* main not started
LoopIdle ==
    /\ mode = "loop"
    /\ pc = "start"
    /\ running = TRUE
    /\ error_count = 0
    /\ backoff = BASE_BACKOFF
    /\ slept = 0
    /\ closed = 0
    /\ lastTick = "none"
    /\ exitBy = "none"

\* the environment read at import: MODE, whether ALPACA_KEY and ALPACA_SECRET
\* are set, whether _AlpacaBroker() can be constructed, and whether
\* Broker.__init__ tried to construct it
Env(m, key, secret, libOk, attempted) ==
    [mode |-> m, key |-> key, secret |-> secret, libOk |-> libOk, attempted |-> attempted]

\* the default environment: MODE unset, no keys
SimEnv == Env("SIM", FALSE, FALSE, FALSE, FALSE)

\* a working paper-trading configuration, after Broker() built the live client
LiveEnv == Env("ALPACA", TRUE, TRUE, TRUE, TRUE)

\* no helper function called yet
NoCalc == [fn |-> "none", state |-> "none"]

\* no Runner
RunnerIdle ==
    /\ impl = "SIM"
    /\ env = SimEnv
    /\ history = <<>>
    /\ last_signal = "HOLD"
    /\ now = 0
    /\ tick = [outcome |-> "none", signal |-> "none", prevSignal |-> "none",
               prevLast |-> "HOLD", price |-> NaN,
              qty |-> 0, placeCalls |-> 0, order |-> "none", subs |-> <<>>, applied |-> 0]
    /\ calc = NoCalc

SimInit ==
    /\ cash \in 0..MaxInitCash
    /\ positions = <<>>
    /\ trades = <<>>
    /\ calls = 0
    /\ last = NoCall
    /\ LoopIdle
    /\ RunnerIdle

SimDirect ==
    \E symbol \in SymbolArgs, side \in SideArgs, price \in PriceArgs,
       qty \in QtyArgs, fees \in FeeArgs, dbOk \in BOOLEAN :
        SimPlaceOrder(symbol, side, price, qty, fees, dbOk)

SimViaFacade ==
    \E symbol \in {"AAPL"}, side \in {"BUY", "sell"}, price \in PriceArgs,
       qty \in QtyArgs, fees \in FeeArgs, dbOk \in BOOLEAN :
        BrokerPlaceOrder(symbol, side, price, qty, fees, dbOk)

\* the limits get_trades is called with: none, fewer and more rows than logged
TradeLimits == 0..(MaxCalls + 1)

\* db.get_trades(limit) on the trade log as it is
SimGetTrades ==
    /\ calc.fn = "none"
    /\ \E limit \in TradeLimits :
          calc' = [fn |-> "get_trades", limit |-> limit, out |-> GetTrades(trades, limit)]
    /\ UNCHANGED <<impl, env, history, last_signal, now, tick>>
    /\ UNCHANGED simVars
    /\ UNCHANGED loopVars

SimNext == SimDirect \/ SimViaFacade

SpecSim == SimInit /\ [][SimNext]_vars

\* orders on the ledger, then a reader of the trade log
TradesNext ==
    \/ calc.fn = "none" /\ SimDirect
    \/ calc.fn = "none" /\ SimViaFacade
    \/ SimGetTrades

SpecTrades == SimInit /\ [][TradesNext]_vars

(***************************************************************************)
(* run_bot.main, from the point where the Runner has been constructed.     *)
(* runner.step() is seen through how it ends: it returns its info dict, it *)
(* raises an Exception, or a KeyboardInterrupt is raised in it.            *)
(***************************************************************************)
\* the backoff main computes after the n-th consecutive failed tick
Backoff_NoCap(n) ==
    IF n <= 1 THEN BASE_BACKOFF
    ELSE BASE_BACKOFF * (2 ^ ((n - 1) \div ERRORS_TO_DOUBLE))

Backoff(n) ==
    IF n <= 1 THEN BASE_BACKOFF
    ELSE Min(MAX_BACKOFF, BASE_BACKOFF * (2 ^ ((n - 1) \div ERRORS_TO_DOUBLE)))

\* handle_sigint: SIGINT or SIGTERM delivered while the process runs
HandleSigint ==
    /\ pc # "returned"
    /\ running
    /\ running' = FALSE
    /\ UNCHANGED <<mode, pc, error_count, backoff, slept, closed, lastTick, exitBy>>
    /\ UNCHANGED simVars
    /\ UNCHANGED runnerVars

\* main(loop_once): error_count = 0; backoff = BASE_BACKOFF
Start ==
    /\ pc = "start"
    /\ pc' = IF mode = "once" THEN "once_step" ELSE "head"
    /\ error_count' = 0
    /\ backoff' = BASE_BACKOFF
    /\ UNCHANGED <<mode, running, slept, closed, lastTick, exitBy>>
    /\ UNCHANGED simVars
    /\ UNCHANGED runnerVars

\* while running:
LoopHead ==
    /\ pc = "head"
    /\ IF running
       THEN pc' = "in_step" /\ exitBy' = exitBy
       ELSE pc' = "finally" /\ exitBy' = "stop"
    /\ UNCHANGED <<mode, running, error_count, backoff, slept, closed, lastTick>>
    /\ UNCHANGED simVars
    /\ UNCHANGED runnerVars

\* the success branch without the reset of error_count and backoff
StepReturns_KeepsErrors ==
    /\ pc = "in_step"
    /\ lastTick' = "ok"
    /\ slept' = 0
    /\ pc' = "poll_check"
    /\ UNCHANGED <<mode, running, error_count, backoff, closed, exitBy>>
    /\ UNCHANGED simVars
    /\ UNCHANGED runnerVars

\* runner.step() returned: print the line, reset the errors, go to the poll sleep
StepReturns ==
    /\ pc = "in_step"
    /\ lastTick' = "ok"
    /\ error_count' = 0
    /\ backoff' = BASE_BACKOFF
    /\ slept' = 0
    /\ pc' = "poll_check"
    /\ UNCHANGED <<mode, running, closed, exitBy>>
    /\ UNCHANGED simVars
    /\ UNCHANGED runnerVars

\* except KeyboardInterrupt: break
StepInterrupted ==
    /\ pc = "in_step"
    /\ lastTick' = "kbd"
    /\ exitBy' = "kbd"
    /\ pc' = "finally"
    /\ UNCHANGED <<mode, running, error_count, backoff, slept, closed>>
    /\ UNCHANGED simVars
    /\ UNCHANGED runnerVars

\* the handler with the exception raised again instead of slept on
StepRaises_Reraise ==
    /\ pc = "in_step"
    /\ error_count < MaxErrors
    /\ lastTick' = "error"
    /\ error_count' = error_count + 1
    /\ backoff' = Backoff(error_count + 1)
    /\ slept' = 0
    /\ exitBy' = "escape"
    /\ pc' = "finally"
    /\ UNCHANGED <<mode, running, closed>>
    /\ UNCHANGED simVars
    /\ UNCHANGED runnerVars

\* except Exception: count the error, compute the backoff, go to the backoff sleep
StepRaises ==
    /\ pc = "in_step"
    /\ error_count < MaxErrors
    /\ lastTick' = "error"
    /\ error_count' = error_count + 1
    /\ backoff' = Backoff(error_count + 1)
    /\ slept' = 0
    /\ pc' = "backoff_check"
    /\ UNCHANGED <<mode, running, closed, exitBy>>
    /\ UNCHANGED simVars
    /\ UNCHANGED runnerVars

\* while slept < backoff and running:   (then: continue)
BackoffCheck ==
    /\ pc = "backoff_check"
    /\ pc' = IF slept < backoff /\ running THEN "backoff_slice" ELSE "head"
    /\ UNCHANGED <<mode, running, error_count, backoff, slept, closed, lastTick, exitBy>>
    /\ UNCHANGED simVars
    /\ UNCHANGED runnerVars

\* the poll sleep with the stop flag not looked at between the slices
PollCheck_IgnoresStop ==
    /\ pc = "poll_check"
    /\ pc' = IF slept < POLL_INTERVAL_SECONDS THEN "poll_slice" ELSE "head"
    /\ UNCHANGED <<mode, running, error_count, backoff, slept, closed, lastTick, exitBy>>
    /\ UNCHANGED simVars
    /\ UNCHANGED runnerVars

\* while slept < POLL_INTERVAL_SECONDS and running:
PollCheck ==
    /\ pc = "poll_check"
    /\ pc' = IF slept < POLL_INTERVAL_SECONDS /\ running THEN "poll_slice" ELSE "head"
    /\ UNCHANGED <<mode, running, error_count, backoff, slept, closed, lastTick, exitBy>>
    /\ UNCHANGED simVars
    /\ UNCHANGED runnerVars

\* time.sleep(1); slept += 1
SleepSlice ==
    /\ pc \in {"backoff_slice", "poll_slice"}
    /\ slept' = slept + 1
    /\ pc' = IF pc = "backoff_slice" THEN "backoff_check" ELSE "poll_check"
    /\ UNCHANGED <<mode, running, error_count, backoff, closed, lastTick, exitBy>>
    /\ UNCHANGED simVars
    /\ UNCHANGED runnerVars

\* a KeyboardInterrupt raised in a sleep is outside the inner try: it leaves
\* the loop through the finally block
SleepInterrupted ==
    /\ pc \in {"backoff_slice", "poll_slice"}
    /\ exitBy' = "escape"
    /\ pc' = "finally"
    /\ UNCHANGED <<mode, running, error_count, backoff, slept, closed, lastTick>>
    /\ UNCHANGED simVars
    /\ UNCHANGED runnerVars

\* the way out of the loop with the close left out
RunnerClose_Skipped == closed' = closed

\* Runner.close(): self.broker.close(), any exception swallowed
RunnerClose == closed' = closed + 1

\* finally: runner.close(); print; main returns
Finally ==
    /\ pc = "finally"
    /\ RunnerClose
    /\ pc' = "returned"
    /\ UNCHANGED <<mode, running, error_count, backoff, slept, lastTick, exitBy>>
    /\ UNCHANGED simVars
    /\ UNCHANGED runnerVars

\* main_once: runner.step() returned, or raised an Exception that is printed
OnceStep ==
    /\ pc = "once_step"
    /\ \E how \in {"ok", "error"} : lastTick' = how
    /\ pc' = "once_close"
    /\ UNCHANGED <<mode, running, error_count, backoff, slept, closed, exitBy>>
    /\ UNCHANGED simVars
    /\ UNCHANGED runnerVars

\* main_once: a KeyboardInterrupt in runner.step() leaves main at once
OnceInterrupted ==
    /\ pc = "once_step"
    /\ lastTick' = "kbd"
    /\ exitBy' = "escape"
    /\ pc' = "returned"
    /\ UNCHANGED <<mode, running, error_count, backoff, slept, closed>>
    /\ UNCHANGED simVars
    /\ UNCHANGED runnerVars

\* if loop_once: ...; runner.close(); return
OnceClose ==
    /\ pc = "once_close"
    /\ RunnerClose
    /\ pc' = "returned"
    /\ UNCHANGED <<mode, running, error_count, backoff, slept, lastTick, exitBy>>
    /\ UNCHANGED simVars
    /\ UNCHANGED runnerVars

SimIdle ==
    /\ cash = 0
    /\ positions = <<>>
    /\ trades = <<>>
    /\ calls = 0
    /\ last = NoCall

LoopInit ==
    /\ mode \in {"loop", "once"}
    /\ pc = "start"
    /\ running = TRUE
    /\ error_count = 0
    /\ backoff = BASE_BACKOFF
    /\ slept = 0
    /\ closed = 0
    /\ lastTick = "none"
    /\ exitBy = "none"
    /\ SimIdle
    /\ RunnerIdle

MainNext ==
    \/ Start
    \/ LoopHead
    \/ StepReturns
    \/ StepInterrupted
    \/ StepRaises
    \/ BackoffCheck
    \/ PollCheck
    \/ SleepSlice
    \/ SleepInterrupted
    \/ Finally
    \/ OnceStep
    \/ OnceInterrupted
    \/ OnceClose

LoopNext == MainNext \/ HandleSigint

SpecLoop == LoopInit /\ [][LoopNext]_vars

\* the main thread keeps running: a tick in progress ends and a sleep returns
FairLoop == LoopInit /\ [][LoopNext]_vars /\ WF_vars(MainNext)

(***************************************************************************)
(* Claims about the run loop.                                              *)
(***************************************************************************)
InLoop == pc \in {"head", "in_step", "poll_check", "poll_slice",
                  "backoff_check", "backoff_slice"}

\* C7: an exception raised by a tick never terminates the run loop: the loop
\* increments the error counter, sleeps the backoff and then executes another
\* tick, for as long as the stop flag is not set; only the stop signal or a
\* KeyboardInterrupt ends the loop.
C7_TickErrorNeverEndsLoop ==
    /\ [][(pc = "in_step" /\ pc' # pc /\ lastTick' = "error") =>
             /\ pc' = "backoff_check"
             /\ error_count' = error_count + 1
             /\ slept' = 0]_vars
    /\ [][(pc = "backoff_check" /\ pc' # pc) =>
             /\ (slept < backoff /\ running) => pc' = "backoff_slice"
             /\ ~(slept < backoff /\ running) => pc' = "head"]_vars
    /\ [][(pc = "head" /\ pc' # pc /\ running) => pc' = "in_step"]_vars
    /\ [][(InLoop /\ ~InLoop') =>
             /\ pc' = "finally"
             /\ \/ pc = "head" /\ ~running
                \/ exitBy' \in {"kbd", "escape"}]_vars
    /\ (mode = "loop" /\ lastTick = "error" /\ pc = "backoff_check")
           ~> (pc = "in_step" \/ ~running \/ exitBy \in {"kbd", "escape"})

\* after a failed tick and its whole backoff the next tick has begun
C7_Witness ==
    /\ pc = "in_step"
    /\ lastTick = "error"
    /\ error_count >= 1
    /\ slept = backoff
    /\ running

\* C8: once SIGINT or SIGTERM has set the stop flag the run loop eventually
\* exits, and runner.close() is invoked exactly once before main returns,
\* whether the loop ended by the stop flag, by KeyboardInterrupt or by an
\* escaping error.
C8_StopExitsAndClosesOnce ==
    /\ (mode = "loop" /\ ~running) ~> (pc = "returned")
    /\ [](mode = "loop" /\ pc = "returned" => closed = 1)
    /\ [](mode = "loop" /\ pc # "returned" => closed = 0)
    /\ [](pc = "returned" => exitBy \in {"stop", "kbd", "escape"} \/ mode = "once")

\* main has returned after the stop flag ended the loop during an error backoff
C8_Witness ==
    /\ mode = "loop"
    /\ pc = "returned"
    /\ exitBy = "stop"
    /\ lastTick = "error"
    /\ slept < backoff
    /\ closed = 1

\* C9: when the error counter is n >= 1 the backoff slept by the run loop is
\* min(MAX_BACKOFF, BASE_BACKOFF * 2^floor((n-1)/ERRORS_TO_DOUBLE)); it is
\* within [BASE_BACKOFF, MAX_BACKOFF] and never decreases as n grows.
C9_BackoffFormula ==
    /\ [](error_count >= 1 =>
             /\ backoff = Min(MAX_BACKOFF,
                              BASE_BACKOFF * (2 ^ ((error_count - 1) \div ERRORS_TO_DOUBLE)))
             /\ BASE_BACKOFF <= backoff
             /\ backoff <= MAX_BACKOFF)
    /\ [](pc \in {"backoff_check", "backoff_slice"} => error_count >= 1 /\ slept <= backoff)
    /\ [][(pc = "backoff_check" /\ pc' = "head" /\ running) => slept = backoff]_vars
    /\ [][(error_count >= 1 /\ error_count' > error_count) => backoff' >= backoff]_vars

\* the backoff has reached the cap and was slept in full
C9_Witness ==
    /\ pc = "head"
    /\ lastTick = "error"
    /\ error_count >= 11
    /\ backoff = MAX_BACKOFF
    /\ slept = MAX_BACKOFF

(***************************************************************************)
(* The Runner (src/runner.py).  A float is a fraction [n, d] with d > 0,   *)
(* or NaNF, or an infinity; NoneF is Python's None where a float is        *)
(* expected.  Prices are whole currency units.                             *)
(***************************************************************************)
TICKER == "AAPL"

NaNF == [n |-> 0, d |-> 0]

IsNaNF(x) == x.d = 0 /\ x.n = 0

InfF == [n |-> 1, d |-> 0]

NegInfF == [n |-> -1, d |-> 0]

NoneF == [n |-> 0, d |-> -1]

IsNone(x) == x.d < 0

IsFinite(x) == x.d > 0

Num(k) == [n |-> k, d |-> 1]

\* a < b for two fractions that are not NaN
Less(a, b) == a.n * b.d < b.n * a.d

\* floor(a / b), b # 0
FloorDiv(a, b) == IF b > 0 THEN a \div b ELSE (-a) \div (-b)

\* float arithmetic as Python does it, exact on finite values
Sign(x) == IF x.n > 0 THEN 1 ELSE IF x.n < 0 THEN -1 ELSE 0

Neg(x) == [n |-> -x.n, d |-> x.d]

Abs(x) == [n |-> IF x.n < 0 THEN -x.n ELSE x.n, d |-> x.d]

Mul(a, b) ==
    IF IsNaNF(a) \/ IsNaNF(b) THEN NaNF
    ELSE IF IsFinite(a) /\ IsFinite(b) THEN [n |-> a.n * b.n, d |-> a.d * b.d]
    ELSE IF Sign(a) * Sign(b) = 0 THEN NaNF
    ELSE [n |-> Sign(a) * Sign(b), d |-> 0]

Add(a, b) ==
    IF IsNaNF(a) \/ IsNaNF(b) THEN NaNF
    ELSE IF IsFinite(a) /\ IsFinite(b) THEN [n |-> a.n * b.d + b.n * a.d, d |-> a.d * b.d]
    ELSE IF IsFinite(a) THEN b
    ELSE IF IsFinite(b) \/ a = b THEN a
    ELSE NaNF

Sub(a, b) == Add(a, Neg(b))

\* x <= 0 and x == 0 (False on nan)
LeqZero(x) == ~IsNaNF(x) /\ x.n <= 0

IsZero(x) == IsFinite(x) /\ x.n = 0

\* a // b for floats, b # 0
FloorDivF(a, b) ==
    IF IsNaNF(a) \/ IsNaNF(b) \/ ~IsFinite(a) THEN NaNF
    ELSE IF ~IsFinite(b) THEN (IF a.n = 0 \/ Sign(a) = Sign(b) THEN Num(0) ELSE Num(-1))
    ELSE Num(FloorDiv(a.n * b.d, b.n * a.d))

\* what a sizing function did: returned qty, or raised exc
Returned(qty) == [exc |-> "", qty |-> qty]

Raises(exc) == [exc |-> exc, qty |-> 0]

\* int(x) of a float
IntOf(x) ==
    IF IsNaNF(x) THEN Raises("ValueError")
    ELSE IF ~IsFinite(x) THEN Raises("OverflowError")
    ELSE Returned(IF x.n >= 0 THEN x.n \div x.d ELSE -((-x.n) \div x.d))

Row(ts, close) == [ts |-> ts, close |-> close]

\* a frame's rows with their positions, and back
Numbered(h) == [i \in DOMAIN h |-> [i |-> i, row |-> h[i]]]

Rows(hn) == [i \in DOMAIN hn |-> hn[i].row]

\* DataFrame.drop_duplicates(keep='last') on a frame whose only column is
\* Close: a row is dropped when a later row has the same Close
DropDuplicates(h) ==
    LET isLast(e) == \A j \in (e.i + 1)..Len(h) : h[j].close # e.row.close
    IN Rows(SelectSeq(Numbered(h), isLast))

\* DataFrame.sort_index(): rows in timestamp order, equal timestamps as they were
SortIndex(h) == SortSeq(h, LAMBDA a, b : a.ts < b.ts)

\* self._max_history = max(self.long * 2, 365)
MaxHistory == Max(LONG * 2, HISTORY_FLOOR)

\* the trimming that keeps the oldest rows of the window instead
Trim_KeepsOldest(h) ==
    IF Len(h) > MaxHistory THEN SubSeq(h, 1, MaxHistory) ELSE h

\* if len(self.history) > self._max_history: self.history.tail(self._max_history)
Trim(h) ==
    IF Len(h) > MaxHistory THEN SubSeq(h, Len(h) - MaxHistory + 1, Len(h)) ELSE h

\* step, with a price: concat, drop_duplicates, sort_index, trim
HistoryWithTick(h, ts, price) == Trim(SortIndex(DropDuplicates(Append(h, Row(ts, price)))))

\* step, without a price: concat, sort_index, drop_duplicates, trim
HistoryWithFetched(h, fetched) ==
    IF fetched = <<>> THEN h ELSE Trim(DropDuplicates(SortIndex(h \o fetched)))

RECURSIVE SumCloses(_, _, _)
SumCloses(h, from, to) ==
    IF from > to THEN 0 ELSE h[from].close + SumCloses(h, from + 1, to)

\* closes.rolling(short).mean().iloc[-1] over the first n rows
Sma(h, n, short) == [n |-> SumCloses(h, n - short + 1, n), d |-> short]

\* closes.ewm(span=long, adjust=False).mean().iloc[-1] over the first n rows:
\* y1 = x1, yt = (2*xt + (long-1)*y(t-1)) / (long+1), kept as EmaNum / (long+1)^(n-1)
RECURSIVE EmaNum(_, _, _)
EmaNum(h, n, long) ==
    IF n = 1 THEN h[1].close
    ELSE 2 * h[n].close * ((long + 1) ^ (n - 2)) + (long - 1) * EmaNum(h, n - 1, long)

Ema(h, n, long) == [n |-> EmaNum(h, n, long), d |-> (long + 1) ^ (n - 1)]

\* Runner._compute_indicators: the pair (sma_short, ema_long)
ComputeIndicators(h) ==
    IF Len(h) = 0 \/ Len(h) < Min(SHORT, LONG) THEN <<NaNF, NaNF>>
    ELSE <<IF Len(h) >= SHORT THEN Sma(h, Len(h), SHORT) ELSE NaNF,
           IF Len(h) >= 2 THEN Ema(h, Len(h), LONG) ELSE NaNF>>

\* _decide_signal: the previous pair, computed on the history without its
\* last row when the history has at least max(short, long) + 1 rows
PrevIndicators(h) ==
    LET hasPrev == Len(h) >= Max(SHORT, LONG) + 1
        m       == Len(h) - 1
    IN <<IF hasPrev /\ m >= SHORT THEN Sma(h, m, SHORT) ELSE NaNF,
         IF hasPrev /\ m >= 2 THEN Ema(h, m, LONG) ELSE NaNF>>

\* _decide_signal with a missing average read as 0
DecideSignal_MissingAsZero(h, sma, ema) ==
    LET zero(x) == IF IsNaNF(x) THEN [n |-> 0, d |-> 1] ELSE x
    IN IF Less(zero(ema), zero(sma)) THEN "BUY"
       ELSE IF Less(zero(sma), zero(ema)) THEN "SELL"
       ELSE "HOLD"

\* _decide_signal with a tie of the current averages read as short above long
DecideSignal_TieBuys(h, sma, ema) ==
    IF IsNaNF(sma) \/ IsNaNF(ema) THEN "HOLD"
    ELSE IF ~Less(sma, ema) THEN "BUY" ELSE "SELL"

\* _decide_signal that answers a signal once and HOLD while last_signal has it
DecideSignal_OncePerSignal(h, sma, ema) ==
    IF IsNaNF(sma) \/ IsNaNF(ema) THEN "HOLD"
    ELSE LET level == IF Less(ema, sma) THEN "BUY"
                      ELSE IF Less(sma, ema) THEN "SELL" ELSE "HOLD"
         IN IF level = last_signal THEN "HOLD" ELSE level

\* Runner._decide_signal
DecideSignal(h, sma, ema) ==
    IF IsNaNF(sma) \/ IsNaNF(ema) THEN "HOLD"
    ELSE LET prev_sma == PrevIndicators(h)[1]
             prev_ema == PrevIndicators(h)[2]
             valid    == ~IsNaNF(prev_sma) /\ ~IsNaNF(prev_ema)
         IN IF valid /\ ~Less(prev_ema, prev_sma) /\ Less(ema, sma) THEN "BUY"
            ELSE IF valid /\ ~Less(prev_sma, prev_ema) /\ Less(sma, ema) THEN "SELL"
            ELSE IF Less(ema, sma) THEN "BUY"
            ELSE IF Less(sma, ema) THEN "SELL"
            ELSE "HOLD"

\* _SimBroker.account_value({ticker: price}), or with {} when price is NaN
SimAccountValue(c, pos, sym, price) ==
    LET held == {s \in DOMAIN pos : s = sym /\ price # NaN} IN
        c + (IF held = {} THEN 0 ELSE pos[sym].qty * price)

\* _position_size_by_alloc that sizes on the whole budget at the quoted price
SizeByAlloc_IgnoresCosts(equity, price, alloc_pct, slippage_pct, commission) ==
    IF IsNone(price) \/ IsZero(price) \/ IsNaNF(price) THEN Returned(0)
    ELSE LET q == IntOf(FloorDivF(Mul(equity, alloc_pct), price))
         IN IF q.exc # "" THEN q ELSE Returned(Max(0, q.qty))

\* Runner._position_size_by_alloc, from the equity that account_value answered
SizeByAlloc(equity, price, alloc_pct, slippage_pct, commission) ==
    LET budget          == Mul(equity, alloc_pct)
        effective_price == Mul(price, Add(Num(1), slippage_pct))
        qty             == IntOf(FloorDivF(Sub(budget, commission), effective_price))
    IN IF IsNone(price) \/ IsZero(price) \/ IsNaNF(price) THEN Returned(0)
       ELSE IF IsZero(effective_price) THEN Raises("ZeroDivisionError")
       ELSE IF qty.exc # "" THEN qty
       ELSE Returned(Max(0, qty.qty))

\* Runner._position_size_by_alloc of a Runner built with the configuration
PositionSizeByAlloc(equity, price) ==
    SizeByAlloc(Num(equity), IF price = NaN THEN NaNF ELSE Num(price),
                [n |-> ALLOC_NUM, d |-> ALLOC_DEN],
                [n |-> SLIPPAGE_NUM, d |-> SLIPPAGE_DEN], Num(COMMISSION)).qty

\* step: if signal != self.last_signal and signal in ("BUY", "SELL")
ShouldTrade_AnyTradeSignal(signal, lastSig) == signal \in {"BUY", "SELL"}

ShouldTrade(signal, lastSig) == signal # lastSig /\ signal \in {"BUY", "SELL"}

\* step: self.last_signal after the tick; order is how the order attempt went
NextLastSignal_OnlyWhenFilled(signal, lastSig, order) ==
    IF ShouldTrade(signal, lastSig)
    THEN (IF order = "filled" THEN signal ELSE lastSig)
    ELSE IF lastSig = "HOLD" /\ signal # "HOLD" THEN signal ELSE lastSig

\* step with last_signal following a HOLD signal too
NextLastSignal_FollowsHold(signal, lastSig, order) ==
    IF ShouldTrade(signal, lastSig) THEN signal
    ELSE IF signal = "HOLD" THEN "HOLD" ELSE lastSig

NextLastSignal(signal, lastSig, order) ==
    IF ShouldTrade(signal, lastSig) THEN signal
    ELSE IF lastSig = "HOLD" /\ signal # "HOLD" THEN signal ELSE lastSig

(***************************************************************************)
(* _AlpacaBroker.place_order.  up1 is the paper API's answer to the first  *)
(* submit_order ("ok", "tick": rejected with a sub-penny / invalid         *)
(* limit_price / minimum pricing message, "other": any other failure), up2 *)
(* its answer to the market fallback, ord the order object it returns.     *)
(* The prices handed to the live broker (price, stop_price, take_price)    *)
(* are in thousandths of a currency unit, the limit prices it submits in   *)
(* hundredths.                                                             *)
(***************************************************************************)
\* _quantize_price with the digits after the second decimal cut off
QuantizeMills_Truncate(m) == m \div 10

\* _quantize_price(price, 2) of a non-negative price given in thousandths,
\* in hundredths: Decimal.quantize(0.01, ROUND_HALF_UP)
QuantizeMills(m) == (m + 5) \div 10

Submission(type, symbol, side, qty, limit, class, take, stop) ==
    [type |-> type, symbol |-> symbol, side |-> side, qty |-> qty,
     limit_price |-> limit, order_class |-> class, take_profit |-> take, stop_loss |-> stop]

MarketOrder(symbol, side, qty) ==
    Submission("market", symbol, side, qty, NoPrice, "simple", NoPrice, NoPrice)

LimitOrder(symbol, side, qty, price, stop, take) ==
    IF stop # NoPrice \/ take # NoPrice
    THEN Submission("limit", symbol, side, qty, QuantizeMills(price), "bracket",
                    IF take # NoPrice THEN QuantizeMills(take) ELSE NoPrice,
                    IF stop # NoPrice THEN QuantizeMills(stop) ELSE NoPrice)
    ELSE Submission("limit", symbol, side, qty, QuantizeMills(price), "simple",
                    NoPrice, NoPrice)

\* the result dict built from the order object; float(None) on an order with
\* no filled_avg_price yet raises, and the short dict is returned instead
AlpacaResult(ord, symbol, side, qty) ==
    IF ord.filled_avg_price = NoPrice
    THEN [symbol |-> symbol, side |-> side, qty |-> qty, filled_qty |-> qty,
          filled_avg_price |-> NoPrice, status |-> "unknown"]
    ELSE [symbol |-> symbol, side |-> side, qty |-> qty, filled_qty |-> ord.filled_qty,
          filled_avg_price |-> ord.filled_avg_price, status |-> ord.status]

AlpacaRaised(subs) ==
    [outcome |-> "RuntimeError", err |-> "submit", res |-> NoRes, subs |-> subs]

\* place_order that answers every failed limit submission with a market order
AlpacaOrder_FallbackOnAnyFailure(symbolArg, sideArg, price, qty, stop, take, up1, up2, ord) ==
    LET symbol == Upper(symbolArg)
        side   == Lower(sideArg)
        done(subs) == [outcome |-> "filled", err |-> "",
                       res |-> AlpacaResult(ord, symbol, Upper(side), qty), subs |-> subs]
    IN IF qty <= 0 THEN [outcome |-> "RuntimeError", err |-> "qty", res |-> NoRes, subs |-> <<>>]
       ELSE IF price = NoPrice
       THEN (IF up1 = "ok" THEN done(<<MarketOrder(symbol, side, qty)>>)
             ELSE AlpacaRaised(<<MarketOrder(symbol, side, qty)>>))
       ELSE LET first == LimitOrder(symbol, side, qty, price, stop, take) IN
            IF up1 = "ok" THEN done(<<first>>)
            ELSE IF up2 = "ok" THEN done(<<first, MarketOrder(symbol, side, qty)>>)
            ELSE AlpacaRaised(<<first, MarketOrder(symbol, side, qty)>>)

AlpacaOrder(symbolArg, sideArg, price, qty, stop, take, up1, up2, ord) ==
    LET symbol == Upper(symbolArg)
        side   == Lower(sideArg)
        done(subs) == [outcome |-> "filled", err |-> "",
                       res |-> AlpacaResult(ord, symbol, Upper(side), qty), subs |-> subs]
    IN IF qty <= 0 THEN [outcome |-> "RuntimeError", err |-> "qty", res |-> NoRes, subs |-> <<>>]
       ELSE IF price = NoPrice
       THEN (IF up1 = "ok" THEN done(<<MarketOrder(symbol, side, qty)>>)
             ELSE AlpacaRaised(<<MarketOrder(symbol, side, qty)>>))
       ELSE LET first == LimitOrder(symbol, side, qty, price, stop, take) IN
            IF up1 = "ok" THEN done(<<first>>)
            ELSE IF up1 = "tick"
            THEN (IF up2 = "ok" THEN done(<<first, MarketOrder(symbol, side, qty)>>)
                  ELSE AlpacaRaised(<<first, MarketOrder(symbol, side, qty)>>))
            ELSE AlpacaRaised(<<first>>)

\* the order objects the paper API answers with
OrderObjects(qty, price) ==
    {[filled_qty |-> 0, filled_avg_price |-> NoPrice, status |-> "accepted"],
     [filled_qty |-> qty, filled_avg_price |-> price, status |-> "filled"]}

(***************************************************************************)
(* Runner._execute_trade through the Broker facade.  The first call passes *)
(* type="market", which Broker.place_order does not declare: a TypeError   *)
(* before its body runs; the retry passes fees=self.commission.            *)
(***************************************************************************)
BrokerPlaceOrderKeywords == {"fees", "stop_price", "take_price"}

AlpacaPlaceOrderKeywords == {"fees", "stop_price", "take_price"}

\* _execute_trade whose first call gets through to the live implementation
\* and raises its TypeError after the submission, so that the retry submits
\* the order again
ExecuteTrade_RetryAfterEffect(imp, c, pos, side, price, qty, up1, up2, ord) ==
    IF imp = "SIM"
    THEN [placeCalls |-> 2,
          r |-> [outcome |-> "TypeError", err |-> "keyword", res |-> NoRes,
                 cash |-> c, positions |-> pos, subs |-> <<>>, applied |-> 0]]
    ELSE LET a == AlpacaOrder(TICKER, side, price * 1000, qty, NoPrice, NoPrice,
                              up1, up2, ord) IN
         [placeCalls |-> 2,
          r |-> [outcome |-> a.outcome, err |-> a.err, res |-> a.res,
                 cash |-> c, positions |-> pos, subs |-> a.subs \o a.subs,
                 applied |-> 2 * Len(a.subs)]]

\* what one _execute_trade does: the Broker.place_order calls it makes, how it
\* ends, and the implementation's effects
ExecuteTrade(imp, c, pos, side, price, qty, up1, up2, ord) ==
    LET firstBinds  == Binds(BrokerPlaceOrderKeywords, {"type"})
        retryBinds  == Binds(BrokerPlaceOrderKeywords, {"fees"})
        implBinds   == IF imp = "SIM"
                       THEN Binds(SimPlaceOrderKeywords, FacadeForwardedKeywords)
                       ELSE Binds(AlpacaPlaceOrderKeywords, FacadeForwardedKeywords)
        typeError   == [outcome |-> "TypeError", err |-> "keyword", res |-> NoRes,
                        cash |-> c, positions |-> pos, subs |-> <<>>, applied |-> 0]
        viaImpl     == IF ~implBinds THEN typeError
                       ELSE IF imp = "SIM"
                       THEN LET r == SimOrder(c, pos, TICKER, side, price, qty, COMMISSION) IN
                            [outcome |-> r.outcome, err |-> r.err, res |-> r.res,
                             cash |-> r.cash, positions |-> r.positions, subs |-> <<>>,
                             applied |-> IF r.outcome = "filled" THEN 1 ELSE 0]
                       ELSE LET a == AlpacaOrder(TICKER, side, price * 1000, qty, NoPrice, NoPrice,
                                                 up1, up2, ord) IN
                            [outcome |-> a.outcome, err |-> a.err, res |-> a.res,
                             cash |-> c, positions |-> pos, subs |-> a.subs,
                             applied |-> Len(a.subs)]
    IN IF firstBinds
       THEN [placeCalls |-> 1, r |-> typeError]
       ELSE IF ~retryBinds THEN [placeCalls |-> 2, r |-> typeError]
       ELSE [placeCalls |-> 2, r |-> viaImpl]

(***************************************************************************)
(* Runner.step.                                                            *)
(***************************************************************************)
NoTick ==
    [outcome |-> "none", signal |-> "none", prevSignal |-> "none",
               prevLast |-> "HOLD", price |-> NaN,
     qty |-> 0, placeCalls |-> 0, order |-> "none", subs |-> <<>>, applied |-> 0]

\* what the price feed answers
PriceFeed == {NaN, 1, 2, 3, 4}

\* what _fetch_ohlc answers: nothing, or bars of earlier days
FetchedFrames == {<<>>} \cup {<<Row(0, c)>> : c \in {1, 2, 3}}

\* what the paper account reports as equity; 0 also stands for a failed query
EquityFeed == {0, 100000}

\* Runner._get_latest_price: the feed's price, else the held position's
\* average entry price, else nan
GetLatestPrice(feed, held) ==
    IF feed # NaN THEN feed
    ELSE IF held.qty > 0 /\ held.avgN # 0 THEN held.avgN \div held.avgD
    ELSE NaN

\* the part of step up to self._last_price = price: the new history and the price
Observe(h, ts, latest, fetched) ==
    IF latest # NaN
    THEN [history |-> HistoryWithTick(h, ts, latest), price |-> latest]
    ELSE LET h1 == HistoryWithFetched(h, fetched) IN
         [history |-> h1, price |-> IF h1 # <<>> THEN h1[Len(h1)].close ELSE NaN]

\* step raised out of the indicator computation (lines 216-217 are unguarded)
StepFaults(obs) ==
    /\ history' = obs.history
    /\ tick' = [NoTick EXCEPT !.outcome = "raised", !.prevSignal = tick.signal,
                              !.prevLast = last_signal,
                              !.price = obs.price]
    /\ UNCHANGED <<last_signal, cash, positions, trades>>

\* step ran to its return
StepCompletes(obs, signal, qty, up1, up2, ord, dbOk) ==
    \E ex \in {ExecuteTrade(impl, cash, positions, signal, obs.price, qty, up1, up2, ord)} :
    \E order \in {IF ~ShouldTrade(signal, last_signal) THEN "none"
                  ELSE IF qty <= 0 THEN "skipped"
                  ELSE IF ex.r.outcome = "filled" THEN "filled"
                  ELSE "raised"} :
       /\ history' = obs.history
       /\ last_signal' = NextLastSignal(signal, last_signal, order)
       /\ cash' = IF order = "filled" THEN ex.r.cash ELSE cash
       /\ positions' = IF order = "filled" THEN ex.r.positions ELSE positions
       /\ trades' = IF order = "filled"
                    THEN PersistTrade(trades,
                             TradeRow(ex.r.res,
                                      IF impl = "ALPACA" THEN obs.price * 1000 ELSE obs.price,
                                      COMMISSION),
                             dbOk)
                    ELSE trades
       /\ tick' = [outcome |-> "returned", signal |-> signal, prevSignal |-> tick.signal,
                   prevLast |-> last_signal,
                   price |-> obs.price, qty |-> qty,
                   placeCalls |-> IF order \in {"filled", "raised"} THEN ex.placeCalls ELSE 0,
                   order |-> order,
                   subs |-> IF order \in {"filled", "raised"} THEN ex.r.subs ELSE <<>>,
                   applied |-> IF order \in {"filled", "raised"} THEN ex.r.applied ELSE 0]

\* the answers of the paper API that one order attempt can meet
Upstream1(attempt) == IF attempt /\ impl = "ALPACA" THEN {"ok", "tick", "other"} ELSE {"ok"}

Upstream2(up1) == IF up1 = "tick" THEN {"ok", "fail"} ELSE {"ok"}

Accepted(attempt, up1, up2) ==
    attempt /\ impl = "ALPACA" /\ (up1 = "ok" \/ (up1 = "tick" /\ up2 = "ok"))

\* what broker.get_position answers in _get_latest_price
HeldPosition(heldPrice) ==
    IF impl = "SIM" THEN GetPosition(positions, TICKER)
    ELSE [qty |-> IF heldPrice = 0 THEN 0 ELSE 1, avgN |-> heldPrice, avgD |-> 1]

\* what broker.account_value answers in _position_size_by_alloc
EquityAnswers(price, trade) ==
    IF impl = "SIM" THEN {SimAccountValue(cash, positions, TICKER, price)}
    ELSE IF trade THEN EquityFeed ELSE {0}

SignalOf(h) == DecideSignal(h, ComputeIndicators(h)[1], ComputeIndicators(h)[2])

\* Runner.step(): the history, the signal, the order attempt and last_signal
Step ==
    /\ now <= MaxTicks
    /\ now' = now + 1
    /\ \E feed \in PriceFeed :
       \E heldPrice \in (IF impl = "ALPACA" /\ feed = NaN THEN {0, 2} ELSE {0}) :
       \E latest \in {GetLatestPrice(feed, HeldPosition(heldPrice))} :
       \E fetched \in (IF latest = NaN THEN FetchedFrames ELSE {<<>>}) :
       \E obs \in {Observe(history, now, latest, fetched)} :
          \/ StepFaults(obs)
          \/ \E signal \in {SignalOf(obs.history)} :
             \E equity \in EquityAnswers(obs.price, ShouldTrade(signal, last_signal)) :
             \E qty \in {IF ShouldTrade(signal, last_signal)
                         THEN PositionSizeByAlloc(equity, obs.price) ELSE 0} :
             \E up1 \in Upstream1(qty > 0) :
             \E up2 \in Upstream2(up1) :
             \E ord \in (IF Accepted(qty > 0, up1, up2) THEN OrderObjects(qty, obs.price * 1000)
                         ELSE {[filled_qty |-> 0, filled_avg_price |-> NoPrice,
                                status |-> "accepted"]}) :
             \E dbOk \in (IF Accepted(qty > 0, up1, up2) THEN BOOLEAN ELSE {TRUE}) :
                 StepCompletes(obs, signal, qty, up1, up2, ord, dbOk)

\* Runner.step() called on its own
RunnerStep ==
    /\ Step
    /\ UNCHANGED <<impl, env, calls, last, calc>>
    /\ UNCHANGED loopVars

\* the state after Runner.__init__: the implementation chosen, the ledger at
\* its default cash, the history warmed up (or empty when the fetch failed)
RunnerInit ==
    /\ impl \in {"SIM", "ALPACA"}
    /\ env = (IF impl = "ALPACA" THEN LiveEnv ELSE SimEnv)
    /\ cash = SIM_DEFAULT_CASH
    /\ positions = <<>>
    /\ trades = <<>>
    /\ calls = 0
    /\ last = NoCall
    /\ history \in FetchedFrames
    /\ last_signal = "HOLD"
    /\ now = 1
    /\ tick = NoTick
    /\ calc = NoCalc
    /\ LoopIdle

RunnerNext == RunnerStep

SpecRunner == RunnerInit /\ [][RunnerNext]_vars

(***************************************************************************)
(* The signal computation on its own: _compute_indicators followed by      *)
(* _decide_signal, on every history of up to MaxLen closes from            *)
(* CloseValues and under every last_signal.                                *)
(***************************************************************************)
CloseValues == {1, 2, 3, 4}

\* the frame whose closes are f[1], f[2], ..., one row a day
Frame(f) == [i \in DOMAIN f |-> Row(i, f[i])]

Histories == UNION {{Frame(f) : f \in [1..n -> CloseValues]} : n \in 0..MaxLen}

\* sma, ema = self._compute_indicators(); signal = self._decide_signal(sma, ema)
ComputeSignal ==
    /\ tick' = [NoTick EXCEPT !.outcome = "computed", !.signal = SignalOf(history),
                              !.prevLast = last_signal]
    /\ UNCHANGED <<impl, env, history, last_signal, now, calc>>
    /\ UNCHANGED simVars
    /\ UNCHANGED loopVars

\* step's assignment to self.last_signal, with no order placed
RecordSignal ==
    /\ tick.outcome = "computed"
    /\ last_signal' = NextLastSignal(tick.signal, last_signal, "none")
    /\ last_signal' # last_signal
    /\ UNCHANGED <<impl, env, history, now, tick, calc>>
    /\ UNCHANGED simVars
    /\ UNCHANGED loopVars

SignalInit ==
    /\ impl = "SIM"
    /\ env = SimEnv
    /\ history \in Histories
    /\ last_signal \in {"HOLD", "BUY", "SELL"}
    /\ now = 0
    /\ tick = NoTick
    /\ calc = NoCalc
    /\ SimIdle
    /\ LoopIdle

SignalNext == ComputeSignal \/ RecordSignal

SpecSignal == SignalInit /\ [][SignalNext]_vars

(***************************************************************************)
(* The Broker facade from its construction on: Broker.__init__ picks the   *)
(* implementation, then account_value, get_position, place_order and close *)
(* are called on it in any order, with the paper API answering or failing. *)
(***************************************************************************)
\* if MODE == "ALPACA" and ALPACA_KEY and ALPACA_SECRET
LiveConfigured(e) == e.mode = "ALPACA" /\ e.key /\ e.secret

\* the choice with the secret not looked at
SelectImpl_LiveWithoutSecret(e) ==
    IF e.mode = "ALPACA" /\ e.key /\ e.libOk THEN "ALPACA" ELSE "SIM"

\* Broker.__init__: _AlpacaBroker() if configured and constructible, else _SimBroker()
SelectImpl(e) ==
    IF LiveConfigured(e) THEN (IF e.libOk THEN "ALPACA" ELSE "SIM") ELSE "SIM"

Environments ==
    {Env(m, key, secret, libOk, FALSE) :
        m \in {"SIM", "ALPACA"}, key \in BOOLEAN, secret \in BOOLEAN, libOk \in BOOLEAN}

\* the arguments place_order is called with on the facade; prices for the
\* live broker in thousandths
LiveSymbolArgs == {"aapl"}
LiveSideArgs == {"BUY", "sell"}
LivePriceArgs == {NoPrice, 1004, 1005}
LiveQtyArgs == {0, 1}
LiveFeeArgs == {1}
\* (stop_price, take_price)
BracketArgs == {<<NoPrice, NoPrice>>, <<995, 1100>>}
SimSymbolArgs == {"aapl"}
SimSideArgs == {"BUY", "sell"}
SimPriceArgs == {1, 2}
SimQtyArgs == {1, 2}
\* what the paper API answers to a submission or a query
UpstreamAnswers == {"ok", "tick", "other"}

BrokerConstruct ==
    /\ impl = "none"
    /\ impl' = SelectImpl(env)
    /\ env' = [env EXCEPT !.attempted = LiveConfigured(env)]
    /\ cash' = (IF impl' = "SIM" THEN SIM_DEFAULT_CASH ELSE cash)
    /\ positions' = <<>>
    /\ UNCHANGED <<trades, calls, last, history, last_signal, now, tick, calc>>
    /\ UNCHANGED loopVars

\* a facade call that places no order: what it was, whether it returned the
\* implementation's answer or the default of a failed query, the value it
\* returned and what the paper API answered to each request it made
QueryRecord(method, q) ==
    [via |-> method, outcome |-> q.outcome, err |-> "", res |-> NoRes, fees |-> 0,
     persistTried |-> FALSE, value |-> q.value, answers |-> q.answers]

\* _AlpacaBroker.account_value that lets the failure of get_account out
AlpacaAccountValue_Propagates(up1, up2) ==
    IF up1 = "ok" THEN [outcome |-> "returned", value |-> 100000, answers |-> <<up1>>]
    ELSE [outcome |-> "raised", value |-> 0, answers |-> <<up1>>]

\* _AlpacaBroker.account_value: get_account() and float(equity); on an
\* exception get_account() once more; on a second exception 0.0
AlpacaAccountValue(up1, up2) ==
    IF up1 = "ok" THEN [outcome |-> "returned", value |-> 100000, answers |-> <<up1>>]
    ELSE IF up2 = "ok" THEN [outcome |-> "returned", value |-> 100000, answers |-> <<up1, up2>>]
    ELSE [outcome |-> "default", value |-> 0, answers |-> <<up1, up2>>]

\* _AlpacaBroker.get_position: (qty, avg_entry_price), or (0, 0.0) on an exception
AlpacaGetPosition(up) ==
    IF up = "ok"
    THEN [outcome |-> "returned", value |-> [qty |-> 1, avgN |-> 1000, avgD |-> 1],
          answers |-> <<up>>]
    ELSE [outcome |-> "default", value |-> [qty |-> 0, avgN |-> 0, avgD |-> 1],
          answers |-> <<up>>]

\* Broker.account_value
BrokerAccountValue(up1, up2) ==
    /\ impl # "none"
    /\ calls < MaxCalls
    /\ last' = QueryRecord("account_value",
                   IF impl = "SIM"
                   THEN [outcome |-> "returned",
                         value |-> SimAccountValue(cash, positions, TICKER, NaN),
                         answers |-> <<>>]
                   ELSE AlpacaAccountValue(up1, up2))
    /\ calls' = calls + 1
    /\ UNCHANGED <<cash, positions, trades>>
    /\ UNCHANGED runnerVars
    /\ UNCHANGED loopVars

\* Broker.get_position
BrokerGetPosition(symbol, up) ==
    /\ impl # "none"
    /\ calls < MaxCalls
    /\ last' = QueryRecord("get_position",
                   IF impl = "SIM"
                   THEN [outcome |-> "returned", value |-> GetPosition(positions, symbol),
                         answers |-> <<>>]
                   ELSE AlpacaGetPosition(up))
    /\ calls' = calls + 1
    /\ UNCHANGED <<cash, positions, trades>>
    /\ UNCHANGED runnerVars
    /\ UNCHANGED loopVars

\* Broker.close: the implementation's close(), any exception swallowed
BrokerClose ==
    /\ impl # "none"
    /\ calls < MaxCalls
    /\ last' = QueryRecord("close", [outcome |-> "returned", value |-> 0, answers |-> <<>>])
    /\ calls' = calls + 1
    /\ UNCHANGED <<cash, positions, trades>>
    /\ UNCHANGED runnerVars
    /\ UNCHANGED loopVars

\* what the caller of the live place_order observes, with the submissions
\* made, the paper API's answer to each, and the arguments of the call
AlpacaCallRecord(args, a, up1, up2) ==
    [via |-> "alpaca", outcome |-> a.outcome, err |-> a.err, res |-> a.res,
     fees |-> IF a.outcome = "filled" THEN args.fees ELSE 0,
     persistTried |-> (a.outcome = "filled"),
     subs |-> a.subs,
     answers |-> [i \in 1..Len(a.subs) |-> IF i = 1 THEN up1 ELSE up2],
     args |-> args]

\* Broker.place_order with the live implementation selected
AlpacaPlaceOrder(symbol, side, price, qty, fees, stop, take, up1, up2, ord, dbOk) ==
    /\ impl = "ALPACA"
    /\ calls < MaxCalls
    /\ Binds(AlpacaPlaceOrderKeywords, FacadeForwardedKeywords)
    /\ LET a    == AlpacaOrder(symbol, side, price, qty, stop, take, up1, up2, ord)
           args == [symbol |-> symbol, side |-> side, price |-> price, qty |-> qty,
                    fees |-> fees, stop_price |-> stop, take_price |-> take]
       IN /\ trades' = IF a.outcome = "filled"
                       THEN PersistTrade(trades, TradeRow(a.res, price, fees), dbOk)
                       ELSE trades
          /\ last' = AlpacaCallRecord(args, BestEffort(a, dbOk), up1, up2)
    /\ calls' = calls + 1
    /\ UNCHANGED <<cash, positions>>
    /\ UNCHANGED runnerVars
    /\ UNCHANGED loopVars

\* the order objects the paper API answers a call at this price with
LiveOrderObjects(qty, price) ==
    OrderObjects(qty, IF price = NoPrice THEN 1000 ELSE QuantizeMills(price) * 10)

LiveViaFacade ==
    \E symbol \in LiveSymbolArgs, side \in LiveSideArgs, price \in LivePriceArgs,
       qty \in LiveQtyArgs, fees \in LiveFeeArgs, bracket \in BracketArgs,
       up1 \in UpstreamAnswers :
    \E up2 \in (IF up1 = "tick" /\ price # NoPrice THEN {"ok", "fail"} ELSE {"ok"}) :
    \E ord \in LiveOrderObjects(qty, price), dbOk \in BOOLEAN :
        AlpacaPlaceOrder(symbol, side, price, qty, fees, bracket[1], bracket[2],
                         up1, up2, ord, dbOk)

\* the selected _SimBroker called through the facade
SimSelectedViaFacade ==
    /\ impl = "SIM"
    /\ \E symbol \in SimSymbolArgs, side \in SimSideArgs, price \in SimPriceArgs,
          qty \in SimQtyArgs, fees \in LiveFeeArgs, dbOk \in BOOLEAN :
           BrokerPlaceOrder(symbol, side, price, qty, fees, dbOk)

\* the selected _SimBroker called as Broker._impl
SimSelectedDirect ==
    /\ impl = "SIM"
    /\ \E symbol \in SimSymbolArgs, side \in SimSideArgs, price \in SimPriceArgs,
          qty \in SimQtyArgs, fees \in LiveFeeArgs, dbOk \in BOOLEAN :
           SimPlaceOrder(symbol, side, price, qty, fees, dbOk)

BrokerQueries ==
    \E up1 \in {"ok", "other"}, up2 \in {"ok", "other"}, symbol \in LiveSymbolArgs :
        \/ BrokerAccountValue(up1, up2)
        \/ BrokerGetPosition(symbol, up1)
        \/ BrokerClose

\* before Broker(): the environment as the process finds it
BrokerInit ==
    /\ impl = "none"
    /\ env \in Environments
    /\ history = <<>>
    /\ last_signal = "HOLD"
    /\ now = 0
    /\ tick = NoTick
    /\ calc = NoCalc
    /\ SimIdle
    /\ LoopIdle

BrokerNext ==
    \/ BrokerConstruct
    \/ BrokerQueries
    \/ LiveViaFacade
    \/ SimSelectedViaFacade
    \/ SimSelectedDirect

SpecBroker == BrokerInit /\ [][BrokerNext]_vars

(***************************************************************************)
(* Claims about the simulated ledger (checked under SpecSim).              *)
(***************************************************************************)
Filled == last.outcome = "filled"

Rejected == last.outcome \in {"RuntimeError", "ValueError", "TypeError"}

\* C1: in the simulated broker cash >= 0 in every state reachable from a
\* non-negative initial cash by any sequence of place_order calls, for any
\* integer qty, any non-negative price and any fees >= 0, BUY and SELL alike.
C1_CashNeverNegative == cash >= 0

\* C2: every rejected simulated order leaves the ledger unchanged and records
\* no trade: when place_order raises, cash and the positions map are what they
\* were before the call and persist_trade is not attempted.
C2_RejectedOrderChangesNothing ==
    [][Rejected' =>
          /\ cash' = cash
          /\ positions' = positions
          /\ trades' = trades
          /\ ~last'.persistTried]_vars

\* a BUY was rejected for insufficient cash while a position was held
C2_Witness ==
    /\ last.via = "sim"
    /\ last.outcome = "RuntimeError"
    /\ last.err = "cash"
    /\ positions # <<>>

\* C3: through the Broker facade with the simulated implementation selected,
\* place_order has the same outcome as the same order applied to the
\* simulated ledger directly: the same fill result and the same cash and
\* positions afterwards.
C3_FacadeSameAsDirect ==
    [][\A symbol \in SymbolArgs, side \in SideArgs, price \in PriceArgs,
          qty \in QtyArgs, fees \in FeeArgs, dbOk \in BOOLEAN :
          BrokerPlaceOrder(symbol, side, price, qty, fees, dbOk) =>
              LET r == SimOrder(cash, positions, symbol, side, price, qty, fees) IN
                  /\ last'.outcome = r.outcome
                  /\ last'.res = r.res
                  /\ cash' = r.cash
                  /\ positions' = r.positions]_vars

\* C4: for every filled simulated order filled_qty <= requested qty; for every
\* filled SELL filled_qty <= the quantity held for that symbol immediately
\* before the order, so a held quantity never becomes negative.
C4_FilledWithinRequestedAndHeld ==
    /\ [](\A s \in DOMAIN positions : positions[s].qty >= 0)
    /\ [][Filled' =>
             /\ last'.res.filled_qty <= last'.res.qty
             /\ last'.res.side = "SELL" =>
                    last'.res.filled_qty <= GetPosition(positions, last'.res.symbol).qty]_vars

\* a SELL for more than was held was filled with the held quantity
C4_Witness ==
    /\ Filled
    /\ last.res.side = "SELL"
    /\ last.res.filled_qty < last.res.qty

\* C10: the positions map holds at most one entry per symbol and every stored
\* quantity is a positive integer: an entry is created by the first BUY,
\* updated by later BUYs, reduced by a SELL, and removed exactly when a SELL
\* brings the quantity to zero.
C10_PositionsPositiveOnePerSymbol ==
    /\ [](\A s \in DOMAIN positions :
             /\ positions[s].qty \in Nat \ {0}
             /\ \A t \in DOMAIN positions : Upper(s) = Upper(t) => s = t)
    /\ [][Filled' =>
             LET sym  == last'.res.symbol
                 held == GetPosition(positions, sym).qty
                 n    == last'.res.filled_qty
             IN /\ DOMAIN positions' \ {sym} = DOMAIN positions \ {sym}
                /\ last'.res.side = "BUY" =>
                       /\ sym \in DOMAIN positions'
                       /\ positions'[sym].qty = held + n
                /\ last'.res.side = "SELL" =>
                       /\ sym \in DOMAIN positions
                       /\ (held - n = 0) <=> (sym \notin DOMAIN positions')
                       /\ sym \in DOMAIN positions' => positions'[sym].qty = held - n]_vars

\* a SELL brought a holding to zero and its entry is gone
C10_Witness ==
    /\ Filled
    /\ last.res.side = "SELL"
    /\ last.res.symbol \notin DOMAIN positions

\* every symbol other than sym has the same entry before and after the order
OthersUnchanged(sym) ==
    /\ DOMAIN positions' \ {sym} = DOMAIN positions \ {sym}
    /\ \A t \in DOMAIN positions \ {sym} : positions'[t] = positions[t]

\* C11: a filled simulated SELL of requested qty r at price p with fees f on a
\* holding of h > 0 shares sells s = min(r, h), increases cash by exactly
\* p*s - f, and leaves the position at (h - s, previous average price) when
\* h - s > 0 or removes it when h - s = 0; no other symbol's position changes.
\* The spec's example: from cash 98999 holding (10, 100.0), SELL 10 at 110 with
\* fees 1 removes the position and leaves cash 100098.
C11_SellEffects ==
    /\ [][(Filled' /\ last'.res.side = "SELL") =>
             LET sym == last'.res.symbol
                 h   == GetPosition(positions, sym)
                 r   == last'.res.qty
                 p   == last'.res.filled_avg_price
                 f   == last'.fees
                 s   == IF r <= h.qty THEN r ELSE h.qty
             IN /\ h.qty > 0
                /\ last'.res.filled_qty = s
                /\ cash' = cash + p * s - f
                /\ h.qty - s > 0 =>
                       /\ sym \in DOMAIN positions'
                       /\ positions'[sym].qty = h.qty - s
                       /\ positions'[sym].avgN * h.avgD = h.avgN * positions'[sym].avgD
                /\ h.qty - s = 0 => sym \notin DOMAIN positions'
                /\ OthersUnchanged(sym)]_vars
    /\ LET held == SetPosition(<<>>, "AAPL", [qty |-> 10, avgN |-> 100, avgD |-> 1])
           r    == SimOrder(98999, held, "AAPL", "SELL", 110, 10, 1)
       IN /\ r.outcome = "filled"
          /\ r.cash = 100098
          /\ "AAPL" \notin DOMAIN r.positions

\* part of a holding was sold at a price other than its average entry price
C11_Witness ==
    /\ Filled
    /\ last.res.side = "SELL"
    /\ last.res.symbol \in DOMAIN positions
    /\ positions[last.res.symbol].avgN
           # last.res.filled_avg_price * positions[last.res.symbol].avgD

\* C12: a filled simulated BUY of qty q at price p with fees f decreases cash
\* by exactly p*q + f and sets the position to (prev_qty + q,
\* (prev_qty*prev_avg + p*q) / (prev_qty + q)); from cash 100000 and no
\* position, BUY 10 at 100 with fees 1 gives cash 98999 and position
\* (10, 100.0); no other symbol's position changes.
C12_BuyEffects ==
    /\ [][(Filled' /\ last'.res.side = "BUY") =>
             LET sym  == last'.res.symbol
                 prev == GetPosition(positions, sym)
                 q    == last'.res.qty
                 p    == last'.res.filled_avg_price
                 f    == last'.fees
             IN /\ last'.res.filled_qty = q
                /\ cash' = cash - (p * q + f)
                /\ sym \in DOMAIN positions'
                /\ positions'[sym].qty = prev.qty + q
                \* new_avg * (prev_qty + q) = prev_qty * prev_avg + p * q
                /\ positions'[sym].avgN * (prev.qty + q) * prev.avgD
                       = (prev.qty * prev.avgN + p * q * prev.avgD) * positions'[sym].avgD
                /\ OthersUnchanged(sym)]_vars
    /\ LET r == SimOrder(100000, <<>>, "AAPL", "BUY", 100, 10, 1)
       IN /\ r.outcome = "filled"
          /\ r.cash = 98999
          /\ r.positions["AAPL"] = [qty |-> 10, avgN |-> 100, avgD |-> 1]

\* a second BUY at another price left an average that is not a whole number
C12_Witness ==
    /\ Filled
    /\ last.res.side = "BUY"
    /\ positions[last.res.symbol].qty > last.res.filled_qty
    /\ positions[last.res.symbol].avgD > 1

(***************************************************************************)
(* Claims about Runner.step (checked under SpecRunner).                    *)
(***************************************************************************)
\* C5: in Runner.step an order is submitted to the broker only on a tick whose
\* signal is BUY or SELL and differs from last_signal (and whose computed size
\* is > 0); on a tick whose signal is HOLD or equals last_signal no order is
\* submitted.
C5_OrderOnlyOnNewTradeSignal ==
    /\ (tick.placeCalls > 0 \/ tick.applied > 0 \/ tick.subs # <<>>) =>
           /\ tick.signal \in {"BUY", "SELL"}
           /\ tick.signal # tick.prevLast
           /\ tick.qty > 0
    /\ (tick.outcome = "returned" /\ (tick.signal = "HOLD" \/ tick.signal = tick.prevLast)) =>
           /\ tick.placeCalls = 0
           /\ tick.applied = 0
           /\ tick.order = "none"

\* a SELL signal after a BUY put an order through to the paper API
C5_Witness ==
    /\ tick.signal = "SELL"
    /\ tick.prevLast = "BUY"
    /\ tick.placeCalls > 0
    /\ tick.applied > 0

Leq(a, b) == a.n * b.d <= b.n * a.d

\* both averages of the previous point are defined
ValidPrev(h) == ~IsNaNF(PrevIndicators(h)[1]) /\ ~IsNaNF(PrevIndicators(h)[2])

\* both averages of the current point are defined
ValidCur(h) == ~IsNaNF(ComputeIndicators(h)[1]) /\ ~IsNaNF(ComputeIndicators(h)[2])

\* short_avg went from <= long_avg at the previous point to > long_avg now
CrossedUp(h) ==
    /\ ValidPrev(h) /\ ValidCur(h)
    /\ Leq(PrevIndicators(h)[1], PrevIndicators(h)[2])
    /\ ~Leq(ComputeIndicators(h)[1], ComputeIndicators(h)[2])

\* short_avg went from >= long_avg at the previous point to < long_avg now
CrossedDown(h) ==
    /\ ValidPrev(h) /\ ValidCur(h)
    /\ Leq(PrevIndicators(h)[2], PrevIndicators(h)[1])
    /\ ~Leq(ComputeIndicators(h)[2], ComputeIndicators(h)[1])

Computed == tick.outcome = "computed"

\* C14: the level comparison (short_avg > long_avg gives BUY, short_avg <
\* long_avg gives SELL) is used only when no valid previous indicator pair
\* exists; when a valid previous pair exists and the averages did not cross
\* between the previous and the current pair, the signal is HOLD.
C14_NoCrossNoSignal ==
    (Computed /\ ValidPrev(history) /\ ~CrossedUp(history) /\ ~CrossedDown(history))
        => tick.signal = "HOLD"

\* C15: with a valid previous indicator pair the signal is BUY whenever
\* previous short_avg <= previous long_avg and current short_avg > current
\* long_avg, and SELL whenever previous short_avg >= previous long_avg and
\* current short_avg < current long_avg; the two are mutually exclusive, and a
\* current tie yields neither BUY nor SELL.
C15_CrossoverSignals ==
    (Computed /\ ValidPrev(history)) =>
        /\ CrossedUp(history) => tick.signal = "BUY"
        /\ CrossedDown(history) => tick.signal = "SELL"
        /\ ~(CrossedUp(history) /\ CrossedDown(history))
        /\ (ValidCur(history)
              /\ Leq(ComputeIndicators(history)[1], ComputeIndicators(history)[2])
              /\ Leq(ComputeIndicators(history)[2], ComputeIndicators(history)[1]))
             => tick.signal = "HOLD"

\* short_avg rose from a tie at the previous point to above long_avg: BUY
C15_Witness ==
    /\ Computed
    /\ CrossedUp(history)
    /\ Leq(PrevIndicators(history)[2], PrevIndicators(history)[1])
    /\ tick.signal = "BUY"

C17_ShortHistoryHolds ==
    (tick.outcome = "returned"
        /\ (\/ Len(history) < (IF SHORT <= LONG THEN SHORT ELSE LONG)
            \/ Len(history) < SHORT
            \/ Len(history) < 2
            \/ ~ValidCur(history)))
      => /\ tick.signal = "HOLD"
         /\ tick.order = "none"
         /\ tick.placeCalls = 0
         /\ tick.applied = 0
         /\ tick.subs = <<>>

\* a tick on a history of one price: the long average is undefined
C17_Witness ==
    /\ tick.outcome = "returned"
    /\ Len(history) = 1
    /\ tick.price # NaN
    /\ tick.signal = "HOLD"

(***************************************************************************)
(* Claims about the Broker facade and the live broker (checked under       *)
(* SpecBroker).                                                            *)
(***************************************************************************)
LiveCall == last.via = "alpaca"

\* C13: a persistence failure never fails or rolls back an order: for any
\* filled order the returned result and the resulting cash and positions are
\* the same whether persist_trade succeeds or raises, and no exception from
\* persistence reaches the caller, in the simulated and the live broker alike.
C13_PersistFailureHarmless ==
    /\ [][\A symbol \in SimSymbolArgs, side \in SimSideArgs, price \in SimPriceArgs,
             qty \in SimQtyArgs, fees \in LiveFeeArgs, dbOk \in BOOLEAN :
             (impl = "SIM" /\ SimPlaceOrder(symbol, side, price, qty, fees, dbOk)) =>
                 LET r == SimOrder(cash, positions, symbol, side, price, qty, fees) IN
                     /\ last'.outcome = r.outcome
                     /\ last'.res = r.res
                     /\ cash' = r.cash
                     /\ positions' = r.positions
                     /\ (r.outcome = "filled" /\ ~dbOk) => trades' = trades]_vars
    /\ [][(last'.via = "alpaca" /\ calls' = calls + 1) =>
             \A up1 \in UpstreamAnswers, up2 \in {"ok", "fail"}, dbOk \in BOOLEAN :
             \A ord \in LiveOrderObjects(last'.args.qty, last'.args.price) :
                 AlpacaPlaceOrder(last'.args.symbol, last'.args.side, last'.args.price,
                                  last'.args.qty, last'.args.fees,
                                  last'.args.stop_price, last'.args.take_price,
                                  up1, up2, ord, dbOk) =>
                     LET a == AlpacaOrder(last'.args.symbol, last'.args.side,
                                          last'.args.price, last'.args.qty,
                                          last'.args.stop_price, last'.args.take_price,
                                          up1, up2, ord) IN
                         /\ last'.outcome = a.outcome
                         /\ last'.res = a.res
                         /\ last'.subs = a.subs
                         /\ cash' = cash
                         /\ positions' = positions
                         /\ (a.outcome = "filled" /\ ~dbOk) => trades' = trades]_vars
    /\ [](last.outcome \in {"none", "returned", "default", "filled",
                            "RuntimeError", "ValueError", "TypeError"})

\* a live order was accepted and returned although its trade row was not written
C13_Witness ==
    /\ LiveCall
    /\ last.outcome = "filled"
    /\ last.persistTried
    /\ trades = <<>>

\* C18: in the live broker a limit (or bracket) submission that fails with a
\* sub-tick or invalid-price message is followed by exactly one market
\* submission for the same symbol, side and quantity; if that fallback also
\* fails an error is raised with no further submission; any other limit
\* failure and any market-order failure raises an order-placement error with
\* no further submission; one place_order call makes at most two submissions.
C18_FallbackOnce ==
    LiveCall =>
        /\ Len(last.subs) <= 2
        /\ Len(last.subs) = 2 =>
               /\ last.subs[1].type = "limit"
               /\ last.answers[1] = "tick"
        /\ (last.subs # <<>> /\ last.subs[1].type = "limit" /\ last.answers[1] = "tick") =>
               /\ Len(last.subs) = 2
               /\ last.subs[2] = [type |-> "market", symbol |-> last.subs[1].symbol,
                                  side |-> last.subs[1].side, qty |-> last.subs[1].qty,
                                  limit_price |-> NoPrice, order_class |-> "simple",
                                  take_profit |-> NoPrice, stop_loss |-> NoPrice]
               /\ last.subs[2].qty = last.args.qty
               /\ last.answers[2] = "ok" => last.outcome = "filled"
               /\ last.answers[2] # "ok" => last.outcome = "RuntimeError"
        /\ (last.subs # <<>> /\ last.subs[1].type = "limit"
               /\ last.answers[1] \notin {"ok", "tick"}) =>
               /\ Len(last.subs) = 1
               /\ last.outcome = "RuntimeError"
        /\ (last.subs # <<>> /\ last.subs[1].type = "market" /\ last.answers[1] # "ok") =>
               /\ Len(last.subs) = 1
               /\ last.outcome = "RuntimeError"

\* a bracket order was refused for its price and the market fallback failed too
C18_Witness ==
    /\ LiveCall
    /\ Len(last.subs) = 2
    /\ last.subs[1].order_class = "bracket"
    /\ last.outcome = "RuntimeError"

\* C19: in the live broker place_order with a null price submits a market
\* order carrying no limit price, and place_order with a non-null price
\* submits a limit order whose limit price is the given price quantized to 2
\* decimal places (the nearest hundredth, a half rounded up); the first
\* submission is never a market order when a price was given.
C19_MarketOrLimit ==
    LiveCall =>
        /\ last.args.qty > 0 => last.subs # <<>>
        /\ (last.subs # <<>> /\ last.args.price = NoPrice) =>
               /\ last.subs[1].type = "market"
               /\ last.subs[1].limit_price = NoPrice
        /\ (last.subs # <<>> /\ last.args.price # NoPrice) =>
               /\ last.subs[1].type = "limit"
               /\ 10 * last.subs[1].limit_price <= last.args.price + 5
               /\ last.args.price + 5 < 10 * last.subs[1].limit_price + 10

\* a price of 1.005 went out as a limit order at 1.01
C19_Witness ==
    /\ LiveCall
    /\ last.args.price = 1005
    /\ last.subs # <<>>
    /\ last.subs[1].type = "limit"
    /\ last.subs[1].limit_price = 101

\* C20: Broker picks its implementation once, in its constructor: the live
\* implementation is attempted only if live mode is configured and both key
\* and secret are present; if that construction fails, or the configuration
\* is absent, the simulated implementation is used; afterwards no call to
\* account_value, get_position, place_order or close changes which
\* implementation is in use, even when live calls fail.
C20_ImplementationChosenOnce ==
    /\ [](env.attempted => (env.mode = "ALPACA" /\ env.key /\ env.secret))
    /\ [](impl = "ALPACA" => (env.mode = "ALPACA" /\ env.key /\ env.secret /\ env.libOk))
    /\ [](impl = "SIM" => (~(env.mode = "ALPACA" /\ env.key /\ env.secret) \/ ~env.libOk))
    /\ [](impl = "none" => calls = 0)
    /\ [][impl # "none" => (impl' = impl /\ env' = env)]_vars

\* the live implementation is still in use after a live order failed
C20_Witness ==
    /\ impl = "ALPACA"
    /\ LiveCall
    /\ last.outcome = "RuntimeError"
    /\ last.subs # <<>>
    /\ calls >= 2

(***************************************************************************)
(* More claims about the run loop (checked under SpecLoop).                *)
(***************************************************************************)
Sleeping == pc \in {"poll_slice", "backoff_slice"}

SleepChecking == pc \in {"poll_check", "backoff_check"}

\* C21: both sleeps of the run loop (poll interval and error backoff) are
\* interruptible: the stop flag is checked after every 1-second slice, so
\* once the stop flag is set the loop performs at most one more 1-second
\* slice and starts no new poll or backoff sleep before it exits.
C21_SleepsInterruptible ==
    \* a slice lasts one second and is followed by the check of its own loop
    /\ [][(Sleeping /\ pc' # pc) =>
             \/ /\ slept' = slept + 1
                /\ pc' = (IF pc = "poll_slice" THEN "poll_check" ELSE "backoff_check")
             \/ pc' = "finally"]_vars
    \* with the stop flag set no check starts a slice: it goes to the loop head
    /\ [][(~running /\ SleepChecking /\ pc' # pc) => pc' = "head"]_vars
    \* with the stop flag set the loop head starts no tick: the loop exits
    /\ [][(~running /\ pc = "head" /\ pc' # pc) => pc' = "finally"]_vars
    \* a tick that ends with the stop flag set is followed by a check, not a slice
    /\ [][(~running /\ pc = "in_step" /\ pc' # pc) =>
             (pc' = "finally" \/ (SleepChecking' /\ slept' = 0))]_vars
    \* the stop flag stays set
    /\ [][~running => ~running']_vars
    \* a sleep never runs past its length
    /\ [](pc \in {"poll_check", "poll_slice"} => slept <= POLL_INTERVAL_SECONDS)
    /\ [](pc = "poll_slice" => slept < POLL_INTERVAL_SECONDS)
    /\ [](pc = "backoff_slice" => slept < backoff)

\* the stop flag cut a poll sleep short: the loop is back at its head early
C21_Witness ==
    /\ mode = "loop"
    /\ pc = "head"
    /\ ~running
    /\ lastTick = "ok"
    /\ slept > 0
    /\ slept < POLL_INTERVAL_SECONDS

(***************************************************************************)
(* More claims about the Runner's history (checked under SpecRunner).      *)
(***************************************************************************)
\* C22: the history is append-only apart from window trimming: a row leaves
\* the history only when the window is full and the row is older than every
\* row kept, and no two rows carry the same timestamp; two rows with
\* different timestamps are both kept even when their closes are equal.
C22_HistoryAppendOnly ==
    /\ [][\A i \in 1..Len(history) :
              \/ \E j \in 1..Len(history') : history'[j] = history[i]
              \/ /\ Len(history') = MaxHistory
                 /\ history[i].ts <= history'[1].ts]_vars
    /\ [](\A i, j \in 1..Len(history) : i # j => history[i].ts # history[j].ts)

(***************************************************************************)
(* The history on its own, near its window: Runner.__init__ warms it up,   *)
(* then the history part of step (lines 197-212) runs tick after tick.     *)
(* The bars of a warm-up are one a day up to day 0, with closes 1, 2, ...  *)
(***************************************************************************)
Bars(n) == [i \in 1..n |-> Row(i - n, i)]

\* how many bars the warm-up fetch may answer: none, and around the window
WarmupLengths == {0, MaxHistory - 1, MaxHistory, MaxHistory + 2}

\* _warmup_history: self.history = df[['Close']].copy().tail(self._max_history)
WarmupHistory(df) ==
    IF df = <<>> THEN <<>>
    ELSE SubSeq(df, Max(1, Len(df) - MaxHistory + 1), Len(df))

\* what the price feed answers: nothing, the close of an old bar, new prices
HistoryFeed == {NaN, 1, 1000, 1001}

HistoryStep ==
    /\ now <= MaxWindowTicks
    /\ now' = now + 1
    /\ \E latest \in HistoryFeed :
       \E fetched \in (IF latest = NaN THEN FetchedFrames ELSE {<<>>}) :
       \E obs \in {Observe(history, now, latest, fetched)} :
          /\ history' = obs.history
          /\ tick' = [NoTick EXCEPT !.outcome = "observed", !.price = obs.price,
                                    !.applied = IF latest = NaN THEN 0 ELSE 1]
    /\ UNCHANGED <<impl, env, last_signal, calc>>
    /\ UNCHANGED simVars
    /\ UNCHANGED loopVars

HistoryInit ==
    /\ impl = "SIM"
    /\ env = SimEnv
    /\ history \in {WarmupHistory(Bars(n)) : n \in WarmupLengths}
    /\ last_signal = "HOLD"
    /\ now = 1
    /\ tick = NoTick
    /\ calc = NoCalc
    /\ SimIdle
    /\ LoopIdle

HistoryNext == HistoryStep

SpecHistory == HistoryInit /\ [][HistoryNext]_vars

\* C23: after construction and after every tick the history holds at most
\* max(2*long, 365) rows; a tick with a price leaves its point as the newest
\* row, and a row that trimming removed is no newer than any row kept (rows
\* whose close is still in the history were removed as duplicates instead).
C23_HistoryWindow ==
    /\ [](Len(history) <= Max(2 * LONG, HISTORY_FLOOR))
    /\ [][tick'.applied = 1 =>
            history'[Len(history')] = Row(now, tick'.price)]_vars
    /\ [][\A i \in 1..Len(history) :
            \/ history[i].ts <= history'[1].ts
            \/ \E j \in 1..Len(history') : history'[j].close = history[i].close]_vars

\* a full window took the point of a tick and lost its oldest row
C23_Witness ==
    /\ now = 2
    /\ tick.applied = 1
    /\ tick.price = 1000
    /\ Len(history) = Max(2 * LONG, HISTORY_FLOOR)
    /\ history[Len(history)] = Row(1, 1000)
    /\ history[1].close = 2

(***************************************************************************)
(* The sizing helpers on their own: Runner._position_size_by_alloc and     *)
(* compute_position_size_equity_pct, compute_position_size_risk_based and  *)
(* compute_sizing of src/utils.py, each applied to arguments drawn from    *)
(* the sets below.  calc holds the arguments, then the call and its        *)
(* result.                                                                 *)
(***************************************************************************)
Equities == {NaNF, InfF, NegInfF, Num(-5), Num(0), Num(5), Num(100000)}

EntryPrices == {NoneF, NaNF, InfF, Num(-1), Num(0), Num(245), Num(250)}

StopPrices == {NoneF, NaNF, Num(245), Num(250), Num(255)}

AllocPcts == {Num(0), [n |-> 1, d |-> 10]}

RiskPcts == {NoneF, Num(0), [n |-> 1, d |-> 100]}

\* slippage_pct and commission of the Runner
Costs == {[slippage_pct |-> Num(0), commission |-> Num(0)],
          [slippage_pct |-> [n |-> SLIPPAGE_NUM, d |-> SLIPPAGE_DEN], commission |-> Num(COMMISSION)],
          [slippage_pct |-> [n |-> SLIPPAGE_NUM, d |-> SLIPPAGE_DEN], commission |-> Num(3)]}

SizingArgs ==
    [equity : Equities, price : EntryPrices, stop_price : StopPrices,
     alloc_pct : AllocPcts, risk_pct : RiskPcts, costs : Costs]

\* compute_position_size_equity_pct
EquityPct(equity, price, alloc_pct) ==
    IF IsNone(equity) \/ IsNone(price) \/ IsNone(alloc_pct) THEN Returned(0)
    ELSE IF LeqZero(equity) \/ LeqZero(price) \/ LeqZero(alloc_pct) THEN Returned(0)
    ELSE LET qty == IntOf(FloorDivF(Mul(equity, alloc_pct), price))
         IN IF qty.exc # "" THEN qty ELSE Returned(Max(qty.qty, 0))

\* compute_position_size_risk_based that takes the risk per share with its sign
RiskBased_SignedRisk(equity, entry_price, stop_price, risk_pct) ==
    IF IsNone(equity) \/ IsNone(entry_price) \/ IsNone(stop_price) \/ IsNone(risk_pct)
    THEN Returned(0)
    ELSE IF LeqZero(equity) \/ LeqZero(entry_price) \/ LeqZero(risk_pct) THEN Returned(0)
    ELSE IF LeqZero(Sub(entry_price, stop_price)) THEN Returned(0)
    ELSE LET qty == IntOf(FloorDivF(Mul(equity, risk_pct), Sub(entry_price, stop_price)))
         IN IF qty.exc # "" THEN qty ELSE Returned(Max(qty.qty, 0))

\* compute_position_size_risk_based
RiskBased(equity, entry_price, stop_price, risk_pct) ==
    LET risk_amount    == Mul(equity, risk_pct)
        risk_per_share == Abs(Sub(entry_price, stop_price))
        qty            == IntOf(FloorDivF(risk_amount, risk_per_share))
    IN IF IsNone(equity) \/ IsNone(entry_price) \/ IsNone(stop_price) \/ IsNone(risk_pct)
       THEN Returned(0)
       ELSE IF LeqZero(equity) \/ LeqZero(entry_price) \/ LeqZero(risk_pct) THEN Returned(0)
       ELSE IF LeqZero(risk_per_share) THEN Returned(0)
       ELSE IF qty.exc # "" THEN qty
       ELSE Returned(Max(qty.qty, 0))

\* the truth value of a float or None
Truthy(x) == ~IsNone(x) /\ ~IsZero(x)

\* compute_sizing: if stop_price is not None and risk_pct
SizingMode(risk_pct, stop_price) ==
    IF ~IsNone(stop_price) /\ Truthy(risk_pct) THEN "risk" ELSE "alloc"

ComputeSizing(equity, price, alloc_pct, risk_pct, stop_price) ==
    IF SizingMode(risk_pct, stop_price) = "risk"
    THEN RiskBased(equity, price, stop_price, risk_pct)
    ELSE EquityPct(equity, price, alloc_pct)

Pending == calc.fn = "pending"

CallRunnerSizer ==
    /\ Pending
    /\ calc' = [fn |-> "_position_size_by_alloc", args |-> calc.args, mode |-> "alloc",
                out |-> SizeByAlloc(calc.args.equity, calc.args.price, calc.args.alloc_pct,
                                    calc.args.costs.slippage_pct, calc.args.costs.commission)]
    /\ UNCHANGED <<impl, env, history, last_signal, now, tick>>
    /\ UNCHANGED simVars
    /\ UNCHANGED loopVars

CallEquityPct ==
    /\ Pending
    /\ calc' = [fn |-> "compute_position_size_equity_pct", args |-> calc.args, mode |-> "alloc",
                out |-> EquityPct(calc.args.equity, calc.args.price, calc.args.alloc_pct)]
    /\ UNCHANGED <<impl, env, history, last_signal, now, tick>>
    /\ UNCHANGED simVars
    /\ UNCHANGED loopVars

CallRiskBased ==
    /\ Pending
    /\ calc' = [fn |-> "compute_position_size_risk_based", args |-> calc.args, mode |-> "risk",
                out |-> RiskBased(calc.args.equity, calc.args.price, calc.args.stop_price,
                                  calc.args.risk_pct)]
    /\ UNCHANGED <<impl, env, history, last_signal, now, tick>>
    /\ UNCHANGED simVars
    /\ UNCHANGED loopVars

CallComputeSizing ==
    /\ Pending
    /\ calc' = [fn |-> "compute_sizing", args |-> calc.args,
                mode |-> SizingMode(calc.args.risk_pct, calc.args.stop_price),
                out |-> ComputeSizing(calc.args.equity, calc.args.price, calc.args.alloc_pct,
                                      calc.args.risk_pct, calc.args.stop_price)]
    /\ UNCHANGED <<impl, env, history, last_signal, now, tick>>
    /\ UNCHANGED simVars
    /\ UNCHANGED loopVars

SizingInit ==
    /\ calc \in {[fn |-> "pending", args |-> a] : a \in SizingArgs}
    /\ impl = "SIM"
    /\ env = SimEnv
    /\ history = <<>>
    /\ last_signal = "HOLD"
    /\ now = 0
    /\ tick = [outcome |-> "none", signal |-> "none", prevSignal |-> "none",
               prevLast |-> "HOLD", price |-> NaN,
               qty |-> 0, placeCalls |-> 0, order |-> "none", subs |-> <<>>, applied |-> 0]
    /\ SimIdle
    /\ LoopIdle

SizingNext ==
    \/ CallRunnerSizer
    \/ CallEquityPct
    \/ CallRiskBased
    \/ CallComputeSizing

SpecSizing == SizingInit /\ [][SizingNext]_vars

Sized == calc.fn \notin {"none", "pending"}

\* zero, negative, non-finite or missing
Unusable(x) == ~IsFinite(x) \/ x.n <= 0

\* C24: every sizer returns, never raises, and never returns a negative
\* quantity; it returns 0 whenever equity or price is zero, negative or
\* non-finite.
C24_SizersDefensive ==
    Sized =>
        /\ calc.out.exc = ""
        /\ calc.out.qty >= 0
        /\ (Unusable(calc.args.equity) \/ Unusable(calc.args.price)) => calc.out.qty = 0

PositiveFinite(x) == IsFinite(x) /\ x.n > 0

\* C25: for positive equity and price the allocation sizer returns
\* max(0, floor((equity*alloc_pct - commission) / (price*(1 + slippage_pct))))
\* (compute_position_size_equity_pct has neither commission nor slippage);
\* equity 100000, alloc_pct 0.10, price 250 without costs give 40; and when
\* qty > 0, qty*price*(1 + slippage_pct) + commission <= equity*alloc_pct.
\* N/D below is (equity*alloc_pct - commission) / (price*(1 + slippage_pct)).
C25_AllocationSizing ==
    /\ (calc.fn = "_position_size_by_alloc"
          /\ PositiveFinite(calc.args.equity) /\ PositiveFinite(calc.args.price)) =>
         LET e  == calc.args.equity
             p  == calc.args.price
             a  == calc.args.alloc_pct
             s  == calc.args.costs.slippage_pct
             c  == calc.args.costs.commission
             N  == (e.n * a.n * c.d - c.n * e.d * a.d) * p.d * s.d
             D  == e.d * a.d * c.d * p.n * (s.d + s.n)
             q  == Max(0, FloorDiv(N, D))
         IN /\ calc.out = [exc |-> "", qty |-> q]
            /\ q > 0 => q * D <= N
    /\ (calc.fn = "compute_position_size_equity_pct"
          /\ PositiveFinite(calc.args.equity) /\ PositiveFinite(calc.args.price)) =>
         LET e  == calc.args.equity
             p  == calc.args.price
             a  == calc.args.alloc_pct
             q  == Max(0, FloorDiv(e.n * a.n * p.d, e.d * a.d * p.n))
         IN /\ calc.out = [exc |-> "", qty |-> q]
            /\ q > 0 => q * p.n * e.d * a.d <= e.n * a.n * p.d
    /\ (/\ calc.fn \in {"_position_size_by_alloc", "compute_position_size_equity_pct"}
        /\ calc.args.equity = Num(100000)
        /\ calc.args.alloc_pct = [n |-> 1, d |-> 10]
        /\ calc.args.price = Num(250)
        /\ calc.args.costs = [slippage_pct |-> Num(0), commission |-> Num(0)]) =>
         calc.out = [exc |-> "", qty |-> 40]

\* the Runner's sizer with the configured costs: 9999 / 250.125 gives 39
C25_Witness ==
    /\ calc.fn = "_position_size_by_alloc"
    /\ calc.args.equity = Num(100000)
    /\ calc.args.price = Num(250)
    /\ calc.args.alloc_pct = [n |-> 1, d |-> 10]
    /\ calc.args.costs = [slippage_pct |-> [n |-> SLIPPAGE_NUM, d |-> SLIPPAGE_DEN],
                          commission |-> Num(COMMISSION)]
    /\ calc.out = [exc |-> "", qty |-> 39]

\* floor((equity*risk_pct) / |entry_price - stop_price|), floored at 0, and 0
\* when the two prices are equal, for finite arguments
RiskFormula(e, p, st, r) ==
    LET diff == p.n * st.d - st.n * p.d
        gap  == IF diff < 0 THEN -diff ELSE diff
    IN IF gap = 0 THEN 0
       ELSE Max(0, FloorDiv(e.n * r.n * p.d * st.d, e.d * r.d * gap))

AllocFormula(e, p, a) == Max(0, FloorDiv(e.n * a.n * p.d, e.d * a.d * p.n))

RiskArgsFinite ==
    /\ IsFinite(calc.args.equity) /\ IsFinite(calc.args.price)
    /\ IsFinite(calc.args.stop_price) /\ IsFinite(calc.args.risk_pct)

FetchCall(retries) ==
    [fn |-> "fetch_latest_ohlc", pc |-> "start", retries |-> retries,
     primary |-> 0, primaryAnswer |-> "none", imported |-> FALSE,
     attempts |-> 0, failed |-> 0, pauses |-> 0, out |-> "none"]

\* what _fetch_latest_ohlc_alpaca meets: bars, no bars, an error of the client
\* or of a bar, or no alpaca_trade_api
PrimaryAnswers == {"frame", "empty", "error", "no_library"}

\* what yf.download answers: rows, None, rows that dropna() empties, a frame
\* without Open/Close, or an exception
DownloadAnswers == {"frame", "none", "empty", "missing_columns", "error"}

\* fetch_latest_ohlc that asks the primary provider whatever the configuration
FetchStart_PrimaryAlways ==
    /\ calc.fn = "fetch_latest_ohlc"
    /\ calc.pc = "start"
    /\ calc' = [calc EXCEPT !.pc = "primary"]
    /\ UNCHANGED <<impl, env, history, last_signal, now, tick>>
    /\ UNCHANGED simVars
    /\ UNCHANGED loopVars

\* fetch_latest_ohlc: if MODE == "ALPACA" and ALPACA_KEY and ALPACA_SECRET
FetchStart ==
    /\ calc.fn = "fetch_latest_ohlc"
    /\ calc.pc = "start"
    /\ calc' = [calc EXCEPT !.pc = IF LiveConfigured(env) THEN "primary" ELSE "secondary"]
    /\ UNCHANGED <<impl, env, history, last_signal, now, tick>>
    /\ UNCHANGED simVars
    /\ UNCHANGED loopVars

\* _fetch_latest_ohlc_alpaca returns; a frame with rows is returned at once
FetchPrimary ==
    /\ calc.fn = "fetch_latest_ohlc"
    /\ calc.pc = "primary"
    /\ \E answer \in PrimaryAnswers :
          calc' = [calc EXCEPT !.primary = @ + 1,
                               !.primaryAnswer = answer,
                               !.pc = IF answer = "frame" THEN "done" ELSE "secondary",
                               !.out = IF answer = "frame" THEN "frame" ELSE "none"]
    /\ UNCHANGED <<impl, env, history, last_signal, now, tick>>
    /\ UNCHANGED simVars
    /\ UNCHANGED loopVars

\* _fetch_latest_ohlc_yf: import yfinance, then the loop over range(1, retries + 1)
FetchImport ==
    /\ calc.fn = "fetch_latest_ohlc"
    /\ calc.pc = "secondary"
    /\ \E ok \in BOOLEAN :
          calc' = [calc EXCEPT !.imported = ok,
                               !.pc = IF ~ok \/ calc.retries = 0 THEN "done" ELSE "attempt",
                               !.out = IF ~ok \/ calc.retries = 0 THEN "empty" ELSE "none"]
    /\ UNCHANGED <<impl, env, history, last_signal, now, tick>>
    /\ UNCHANGED simVars
    /\ UNCHANGED loopVars

\* one yf.download: rows are returned, anything else leads to the pause
FetchDownload ==
    /\ calc.fn = "fetch_latest_ohlc"
    /\ calc.pc = "attempt"
    /\ \E answer \in DownloadAnswers :
          calc' = [calc EXCEPT !.attempts = @ + 1,
                               !.failed = IF answer = "frame" THEN @ ELSE @ + 1,
                               !.pc = IF answer = "frame" THEN "done" ELSE "pause",
                               !.out = IF answer = "frame" THEN "frame" ELSE "none"]
    /\ UNCHANGED <<impl, env, history, last_signal, now, tick>>
    /\ UNCHANGED simVars
    /\ UNCHANGED loopVars

\* time.sleep(pause), then the next attempt, or the empty frame after the last
FetchPause ==
    /\ calc.fn = "fetch_latest_ohlc"
    /\ calc.pc = "pause"
    /\ calc' = [calc EXCEPT !.pauses = @ + 1,
                            !.pc = IF calc.attempts < calc.retries THEN "attempt" ELSE "done",
                            !.out = IF calc.attempts < calc.retries THEN "none" ELSE "empty"]
    /\ UNCHANGED <<impl, env, history, last_signal, now, tick>>
    /\ UNCHANGED simVars
    /\ UNCHANGED loopVars

FetchInit ==
    /\ calc \in {FetchCall(retries) : retries \in 0..MaxRetries}
    /\ env \in Environments
    /\ impl = "SIM"
    /\ history = <<>>
    /\ last_signal = "HOLD"
    /\ now = 0
    /\ tick = [outcome |-> "none", signal |-> "none", prevSignal |-> "none",
               prevLast |-> "HOLD", price |-> NaN,
               qty |-> 0, placeCalls |-> 0, order |-> "none", subs |-> <<>>, applied |-> 0]
    /\ SimIdle
    /\ LoopIdle

FetchNext ==
    \/ FetchStart
    \/ FetchPrimary
    \/ FetchImport
    \/ FetchDownload
    \/ FetchPause

\* every call and sleep of the fetch returns, so a fetch under way goes on
FairFetch == FetchInit /\ [][FetchNext]_vars /\ WF_vars(FetchNext)

\* C27: fetch_latest_ohlc ends, and ends with a frame (possibly empty); the
\* primary provider is asked at most once, before the secondary, and only when
\* MODE is ALPACA and key and secret are set; the secondary is asked only if
\* the primary was not configured or returned nothing; it downloads at most
\* `retries` times, pauses once after each failed download, and returns the
\* empty frame only after `retries` failed downloads.
C27_FetchTerminates ==
    /\ <>(calc.pc = "done")
    /\ [](calc.pc = "done" <=> calc.out \in {"frame", "empty"})
    /\ [](calc.primary <= 1)
    /\ [](calc.primary = 1 => (env.mode = "ALPACA" /\ env.key /\ env.secret))
    /\ []((calc.pc \notin {"start", "primary"} /\ env.mode = "ALPACA" /\ env.key /\ env.secret)
            => calc.primary = 1)
    /\ [][calc'.primary # calc.primary =>
            (~calc.imported /\ calc.attempts = 0 /\ calc.pauses = 0)]_vars
    /\ []((calc.imported \/ calc.attempts > 0 \/ calc.pc = "secondary") =>
            (calc.primary = 0 \/ calc.primaryAnswer \in {"empty", "error", "no_library"}))
    /\ [](calc.attempts <= calc.retries)
    /\ [](calc.pauses <= calc.failed /\ calc.failed <= calc.pauses + 1)
    /\ [](calc.pc \in {"attempt", "done"} => calc.pauses = calc.failed)
    /\ []((calc.pc = "done" /\ calc.out = "empty" /\ calc.imported) =>
            (calc.attempts = calc.retries /\ calc.failed = calc.retries))
    /\ [][calc'.attempts # calc.attempts => calc.imported]_vars

\* the primary gave nothing and every download of the secondary failed
C27_Witness ==
    /\ calc.fn = "fetch_latest_ohlc"
    /\ calc.pc = "done"
    /\ calc.out = "empty"
    /\ calc.primary = 1
    /\ calc.retries = 3
    /\ calc.attempts = 3
    /\ calc.pauses = 3

(***************************************************************************)
(* More claims about the Broker facade (checked under SpecBroker).         *)
(***************************************************************************)
LiveQuery == impl = "ALPACA" /\ last.via \in {"account_value", "get_position"}

FloatPrice(neg, units) == [type |-> "float", neg |-> neg, units |-> units]

\* the string format(quantized, 'f') of a Decimal with exponent -2: sign and
\* magnitude in hundredths, both digits after the point always written
StrPrice(neg, cents) == [type |-> "str", neg |-> neg, cents |-> cents]

\* Decimal(str(price)): sign and magnitude in ten-thousandths
DecimalOf(price) ==
    [neg |-> price.neg,
     units |-> IF price.type = "float" THEN price.units ELSE price.cents * 100]

\* Decimal.quantize with every digit after the second decimal dropped
QuantizeDecimal_RoundDown(d) == [neg |-> d.neg, cents |-> d.units \div 100]

\* d.quantize(Decimal('0.01'), rounding=ROUND_HALF_UP): the magnitude in
\* hundredths, a tie going away from zero; the sign is kept, on a zero too
QuantizeDecimal(d) == [neg |-> d.neg, cents |-> (d.units + 50) \div 100]

\* utils.quantize_price(price, 2): the quantized Decimal as a float
quantize_price(price) ==
    LET q == QuantizeDecimal(DecimalOf(price))
    IN FloatPrice(q.neg, q.cents * 100)

\* _AlpacaBroker._quantize_price(price, 2): the quantized Decimal as a string
_quantize_price(price) ==
    LET q == QuantizeDecimal(DecimalOf(price))
    IN StrPrice(q.neg, q.cents)

\* prices around zero, and the two prices the specification quotes with
\* their neighbours
QuotedPrices == {2580640, 2580649, 2580650, 2580651, 2580699, 2580700}

QuantizeArgs ==
    {FloatPrice(n < 0, IF n < 0 THEN -n ELSE n) : n \in (-MaxUnits)..MaxUnits}
        \cup {FloatPrice(FALSE, n) : n \in QuotedPrices}

QuantizeIdle ==
    /\ impl = "SIM"
    /\ env = SimEnv
    /\ history = <<>>
    /\ last_signal = "HOLD"
    /\ now = 0
    /\ tick = [outcome |-> "none", signal |-> "none", prevSignal |-> "none",
               prevLast |-> "HOLD", price |-> NaN,
               qty |-> 0, placeCalls |-> 0, order |-> "none", subs |-> <<>>, applied |-> 0]
    /\ SimIdle
    /\ LoopIdle

CallQuantizePrice ==
    /\ calc.fn = "pending"
    /\ calc' = [fn |-> "quantize_price", price |-> calc.price, calls |-> 1,
                out |-> quantize_price(calc.price)]
    /\ UNCHANGED <<impl, env, history, last_signal, now, tick>>
    /\ UNCHANGED simVars
    /\ UNCHANGED loopVars

CallBrokerQuantize ==
    /\ calc.fn = "pending"
    /\ calc' = [fn |-> "_quantize_price", price |-> calc.price, calls |-> 1,
                out |-> _quantize_price(calc.price)]
    /\ UNCHANGED <<impl, env, history, last_signal, now, tick>>
    /\ UNCHANGED simVars
    /\ UNCHANGED loopVars

\* the same function called on its own result
QuantizeAgain ==
    /\ calc.fn \in {"quantize_price", "_quantize_price"}
    /\ calc.calls = 1
    /\ calc' = [fn |-> calc.fn, price |-> calc.out, calls |-> 2,
                out |-> IF calc.fn = "quantize_price"
                        THEN quantize_price(calc.out)
                        ELSE _quantize_price(calc.out)]
    /\ UNCHANGED <<impl, env, history, last_signal, now, tick>>
    /\ UNCHANGED simVars
    /\ UNCHANGED loopVars

QuantizeInit ==
    /\ calc \in {[fn |-> "pending", price |-> p] : p \in QuantizeArgs}
    /\ QuantizeIdle

QuantizeNext ==
    \/ CallQuantizePrice
    \/ CallBrokerQuantize
    \/ QuantizeAgain

SpecQuantize == QuantizeInit /\ [][QuantizeNext]_vars

Quantized == calc.fn \in {"quantize_price", "_quantize_price"}

\* the result's magnitude in hundredths
CentsOf(out) == IF out.type = "float" THEN out.units \div 100 ELSE out.cents

\* the third digit after the decimal point of a float price
ThirdDigit(price) == (price.units \div 10) % 10

\* C30: a price is quantized to a whole number of hundredths: the hundredths
\* of the price as they stand when its third decimal digit is below 5, one
\* hundredth more (in magnitude, the sign kept) when it is 5 or more, whatever
\* the digits after the third; so 258.065 gives 258.07 and 258.064 gives
\* 258.06; and the function called on its own result returns that result.
C30_QuantizeHalfUp ==
    Quantized =>
        /\ calc.out.neg = calc.price.neg
        /\ calc.out.type = "float" => calc.out.units % 100 = 0
        /\ calc.price.type = "float" =>
              CentsOf(calc.out) = (calc.price.units \div 100)
                                    + (IF ThirdDigit(calc.price) >= 5 THEN 1 ELSE 0)
        /\ (calc.calls = 1 /\ calc.price = FloatPrice(FALSE, 2580650)) =>
              CentsOf(calc.out) = 25807
        /\ (calc.calls = 1 /\ calc.price = FloatPrice(FALSE, 2580640)) =>
              CentsOf(calc.out) = 25806
        /\ calc.calls = 2 => calc.out = calc.price

C30_Witness ==
    /\ calc.fn = "_quantize_price"
    /\ calc.calls = 2
    /\ calc.price = StrPrice(FALSE, 25807)
    /\ calc.out = StrPrice(FALSE, 25807)

(***************************************************************************)
(* The simulated broker's queries, account_value and get_position, between *)
(* orders on the ledger (SpecLedger).                                      *)
(***************************************************************************)

\* the price_map argument: None, or a dict from symbols to prices in which a
\* price may be None
PriceMap(none, items) == [none |-> none, items |-> items]

\* price_map = price_map or {}
PriceMapOrEmpty(price_map) == IF price_map.none THEN <<>> ELSE price_map.items

\* p = price_map.get(sym); if p is None: p = 0.0
PriceFor(pm, sym) ==
    IF sym \in DOMAIN pm /\ pm[sym] # NoPrice THEN pm[sym] ELSE 0

\* total += qty * float(p), over the entries of self.positions in syms
RECURSIVE SumPositions(_, _, _, _)
SumPositions(total, pos, pm, syms) ==
    IF syms = {} THEN total
    ELSE LET sym == CHOOSE s \in syms : TRUE
         IN SumPositions(total + pos[sym].qty * PriceFor(pm, sym), pos, pm, syms \ {sym})

\* account_value that values a holding without a price at its average cost
AccountValue_AvgWhenMissing(c, pos, price_map) ==
    LET pm == PriceMapOrEmpty(price_map)
        priced == [s \in DOMAIN pos |->
                     IF s \in DOMAIN pm /\ pm[s] # NoPrice THEN pm[s]
                     ELSE pos[s].avgN \div pos[s].avgD]
    IN SumPositions(c, pos, priced, DOMAIN pos)

\* _SimBroker.account_value(price_map)
AccountValue(c, pos, price_map) ==
    SumPositions(c, pos, PriceMapOrEmpty(price_map), DOMAIN pos)

\* the symbols orders are placed with: one in lower and one in upper case
LedgerSymbolArgs == {"aapl", "MSFT"}

\* the symbols the queries are made with
QuerySymbolArgs == {"AAPL", "aapl", "MSFT"}

QueryPrices == {NoPrice, 1, 2}

PriceMaps ==
    {PriceMap(TRUE, <<>>)} \cup
    UNION {{PriceMap(FALSE, f) : f \in [keys -> QueryPrices]} : keys \in SUBSET QuerySymbolArgs}

\* place_order on the ledger, no query made yet
LedgerOrder ==
    /\ calc.fn = "none"
    /\ \E symbol \in LedgerSymbolArgs, side \in {"BUY", "sell"}, price \in {1, 2},
          qty \in 1..MaxQty, fees \in {0, 2} :
           SimPlaceOrder(symbol, side, price, qty, fees, TRUE)

\* account_value(price_map) on the ledger as it is
SimAccountValueQuery ==
    /\ calc.fn = "none"
    /\ \E price_map \in PriceMaps :
          calc' = [fn |-> "account_value", price_map |-> price_map,
                   out |-> AccountValue(cash, positions, price_map)]
    /\ UNCHANGED <<impl, env, history, last_signal, now, tick>>
    /\ UNCHANGED simVars
    /\ UNCHANGED loopVars

\* _SimBroker.get_position(symbol): self.positions.get(symbol, (0, 0.0)) with
\* the symbol as given
SimGetPositionQuery ==
    /\ calc.fn = "none"
    /\ \E symbol \in QuerySymbolArgs :
          calc' = [fn |-> "get_position", symbol |-> symbol,
                   out |-> GetPosition(positions, symbol)]
    /\ UNCHANGED <<impl, env, history, last_signal, now, tick>>
    /\ UNCHANGED simVars
    /\ UNCHANGED loopVars

LedgerNext ==
    \/ LedgerOrder
    \/ SimAccountValueQuery
    \/ SimGetPositionQuery

SpecLedger == SimInit /\ [][LedgerNext]_vars

\* what a holding of sym adds to the account value under the dict pm
Contribution(pos, pm, sym) ==
    IF sym \notin DOMAIN pos THEN 0
    ELSE IF sym \notin DOMAIN pm THEN 0
    ELSE IF pm[sym] = NoPrice THEN 0
    ELSE pos[sym].qty * pm[sym]

\* C31: account_value(price_map) of the simulated broker returns cash plus,
\* for every held symbol, its quantity times the price the map gives for that
\* symbol, and nothing for a held symbol the map gives no price for (no map,
\* no entry, or an entry of None); the call changes neither cash nor
\* positions.
C31_AccountValue ==
    /\ [][calc'.fn = "account_value" =>
            LET pm == IF calc'.price_map.none THEN <<>> ELSE calc'.price_map.items
            IN /\ calc'.out = cash + Contribution(positions, pm, "AAPL")
                                   + Contribution(positions, pm, "MSFT")
               /\ cash' = cash
               /\ positions' = positions]_vars
    /\ [](DOMAIN positions \subseteq {"AAPL", "MSFT"})

C31_Witness ==
    /\ calc.fn = "account_value"
    /\ DOMAIN positions = {"AAPL", "MSFT"}
    /\ ~calc.price_map.none
    /\ DOMAIN calc.price_map.items = {"AAPL", "aapl"}
    /\ calc.price_map.items["AAPL"] = 2
    /\ calc.out = cash + 2 * positions["AAPL"].qty
    /\ calc.out > cash

(***************************************************************************)
(* run_bot.main driving Runner.step: the tick of the loop is the Runner's  *)
(* step, and main's try/except sees how it ended (SpecBot).                *)
(***************************************************************************)

\* main's try block with a step whose order attempt failed taken for a failed
\* tick
TickResult_OrderFailureRaises(t) ==
    IF t.outcome = "returned" /\ t.order # "raised" THEN "ok" ELSE "error"

\* info = runner.step() in main's try block: the info dict came back, or an
\* Exception came out of step
TickResult(t) == IF t.outcome = "returned" THEN "ok" ELSE "error"

\* while running: try: info = runner.step() ... except Exception: ...
BotStep ==
    /\ pc = "in_step"
    /\ now <= MaxBotTicks
    /\ error_count < MaxErrors
    /\ Step
    /\ lastTick' = TickResult(tick')
    /\ slept' = 0
    /\ IF lastTick' = "ok"
       THEN /\ error_count' = 0
            /\ backoff' = BASE_BACKOFF
            /\ pc' = "poll_check"
       ELSE /\ error_count' = error_count + 1
            /\ backoff' = Backoff(error_count + 1)
            /\ pc' = "backoff_check"
    /\ UNCHANGED <<mode, running, closed, exitBy>>
    /\ UNCHANGED <<impl, env, calls, last, calc>>

\* main after Runner(): the loop not yet entered
BotInit ==
    /\ impl \in {"SIM", "ALPACA"}
    /\ env = (IF impl = "ALPACA" THEN LiveEnv ELSE SimEnv)
    /\ cash = SIM_DEFAULT_CASH
    /\ positions = <<>>
    /\ trades = <<>>
    /\ calls = 0
    /\ last = NoCall
    /\ history \in FetchedFrames
    /\ last_signal = "HOLD"
    /\ now = 1
    /\ tick = NoTick
    /\ calc = NoCalc
    /\ LoopIdle

BotMain ==
    \/ Start
    \/ LoopHead
    \/ BotStep
    \/ BackoffCheck
    \/ PollCheck
    \/ SleepSlice
    \/ Finally

BotNext == BotMain \/ HandleSigint

SpecBot == BotInit /\ [][BotNext]_vars

\* C32: a step whose order attempt was rejected or failed (in the simulated
\* broker, or upstream in the live one) still returns to main, which takes the
\* tick for a success: the error counter is 0 and the backoff BASE_BACKOFF
\* after it, and the poll sleep follows, not the backoff sleep.
C32_OrderFailureNotTickFailure ==
    [][(now' # now /\ tick'.order = "raised") =>
          /\ tick'.outcome = "returned"
          /\ lastTick' = "ok"
          /\ error_count' = 0
          /\ backoff' = BASE_BACKOFF
          /\ pc' = "poll_check"]_vars

C32_Witness ==
    /\ tick.order = "raised"
    /\ tick.placeCalls > 0
    /\ tick.prevLast = "SELL"
    /\ lastTick = "ok"
    /\ error_count = 0
    /\ pc = "poll_slice"
    /\ now = 3

(***************************************************************************)
(* More claims about Runner.step and last_signal (checked under            *)
(* SpecRunner).                                                            *)
(***************************************************************************)
\* the tick just made had a signal that may trade: BUY or SELL, and not the
\* last_signal it met
Eligible(t) == t.outcome = "returned" /\ t.signal \in {"BUY", "SELL"} /\ t.signal # t.prevLast

C34_SuccessResetsBackoff ==
    /\ [][(pc = "in_step" /\ lastTick' = "ok" /\ pc' # pc) =>
             /\ error_count' = 0
             /\ backoff' = BASE_BACKOFF
             /\ pc' = "poll_check"]_vars
    /\ [][(pc = "in_step" /\ lastTick' = "error" /\ pc' # pc) =>
             /\ error_count' = error_count + 1
             /\ backoff' = Backoff(error_count')
             /\ slept' = 0
             /\ pc' = "backoff_check"]_vars
    /\ [][(pc = "in_step" /\ lastTick = "ok" /\ lastTick' = "error") =>
             /\ error_count' = 1
             /\ backoff' = BASE_BACKOFF]_vars
    /\ []((lastTick = "ok" /\ InLoop) => (error_count = 0 /\ backoff = BASE_BACKOFF))
    /\ []((lastTick = "error" /\ mode = "loop") =>
             /\ pc \notin {"poll_check", "poll_slice"}
             /\ backoff = Backoff(error_count))
    /\ []((pc \in {"backoff_check", "backoff_slice"}) => (slept <= backoff))
    /\ [][(pc = "backoff_check" /\ pc' = "head") => (slept = backoff \/ ~running)]_vars

\* the first failure after a success, slept for the whole of BASE_BACKOFF
C34_Witness ==
    /\ lastTick = "error"
    /\ error_count = 1
    /\ backoff = BASE_BACKOFF
    /\ slept = BASE_BACKOFF
    /\ running
    /\ pc = "head"

(***************************************************************************)
(* The loop head in two steps, so that handle_sigint can run between the   *)
(* test of the stop flag and the call of runner.step (SpecStop).           *)
(***************************************************************************)
\* the loop head with the stop flag not looked at
HeadTest_IgnoresStop ==
    /\ pc = "head"
    /\ pc' = "call_step"
    /\ UNCHANGED <<mode, running, error_count, backoff, slept, closed, lastTick, exitBy>>
    /\ UNCHANGED simVars
    /\ UNCHANGED runnerVars

\* while running: the test of the flag alone
HeadTest ==
    /\ pc = "head"
    /\ IF running
       THEN pc' = "call_step" /\ exitBy' = exitBy
       ELSE pc' = "finally" /\ exitBy' = "stop"
    /\ UNCHANGED <<mode, running, error_count, backoff, slept, closed, lastTick>>
    /\ UNCHANGED simVars
    /\ UNCHANGED runnerVars

\* info = runner.step() is entered; the call notes the stop flag as it stood
StepCall ==
    /\ pc = "call_step"
    /\ pc' = "in_step"
    /\ calc' = [fn |-> "step", state |-> IF running THEN "running" ELSE "stopping"]
    /\ UNCHANGED <<impl, env, history, last_signal, now, tick>>
    /\ UNCHANGED <<mode, running, error_count, backoff, slept, closed, lastTick, exitBy>>
    /\ UNCHANGED simVars

StopMain ==
    \/ Start
    \/ HeadTest
    \/ StepCall
    \/ StepReturns
    \/ StepInterrupted
    \/ StepRaises
    \/ BackoffCheck
    \/ PollCheck
    \/ SleepSlice
    \/ SleepInterrupted
    \/ Finally
    \/ OnceStep
    \/ OnceInterrupted
    \/ OnceClose

StopNext == StopMain \/ HandleSigint

SpecStop == LoopInit /\ [][StopNext]_vars

\* C35: handle_sigint only sets the flag, wherever main is; once the flag is
\* set a tick begins only if the loop head had already tested the flag, so at
\* most one tick begins after it; from a loop head that sees the flag set main
\* goes to the finally block and no tick begins afterwards; a tick in progress
\* is left only by its own end (return, Exception, KeyboardInterrupt), never
\* by the handler.
C35_AtMostOneTickAfterStop ==
    /\ [][(running /\ ~running') =>
             /\ pc' = pc
             /\ UNCHANGED <<error_count, backoff, slept, closed, lastTick, exitBy, calc>>]_vars
    /\ [][~running => running' = running]_vars
    /\ [][(calc' # calc) => (pc = "call_step" /\ pc' = "in_step")]_vars
    /\ [][(~running /\ pc # "call_step") => calc' = calc]_vars
    /\ [][(calc.state = "stopping") => calc' = calc]_vars
    /\ [][(~running /\ pc # "call_step") => pc' # "call_step"]_vars
    /\ [][(pc = "head" /\ ~running /\ pc' # pc) => pc' = "finally"]_vars
    /\ [][(pc \in {"finally", "returned"}) => (pc' \in {"finally", "returned"})]_vars
    /\ [][(pc = "in_step" /\ pc' # pc) =>
             /\ lastTick' \in {"ok", "error", "kbd"}
             /\ running' = running
             /\ pc' \in {"poll_check", "backoff_check", "finally"}
             /\ pc' = "finally" => lastTick' = "kbd"]_vars

\* a tick entered after the flag was set has returned and main has left the
\* loop at the next loop head
C35_Witness ==
    /\ calc.fn = "step"
    /\ calc.state = "stopping"
    /\ lastTick = "ok"
    /\ exitBy = "stop"
    /\ pc = "returned"
    /\ closed = 1

(***************************************************************************)
(* More claims about the simulated broker's queries (checked under         *)
(* SpecLedger).                                                            *)
(***************************************************************************)
\* the string the last filled order named its symbol by: every key of
\* positions comes from one string of LedgerSymbolArgs
GivenAs(key) == CHOOSE s \in LedgerSymbolArgs : Upper(s) = key

\* the last order was a filled BUY given with the symbol s
BoughtAs(s) ==
    /\ last.outcome = "filled"
    /\ last.res.side = "BUY"
    /\ GivenAs(last.res.symbol) = s

\* C36: after a filled BUY of a symbol given as the string s, in whatever
\* letter case, get_position(s) returns the quantity and average price held
\* for it, and account_value with a price map whose only key is s returns
\* cash plus that quantity times the price under s.
C36_KeysConsistent ==
    /\ (calc.fn = "get_position" /\ BoughtAs(calc.symbol)) =>
          /\ calc.out = positions[last.res.symbol]
          /\ calc.out.qty >= last.res.filled_qty
    /\ (calc.fn = "account_value" /\ ~calc.price_map.none
            /\ DOMAIN positions = {last.res.symbol}
            /\ \E s \in LedgerSymbolArgs :
                  /\ BoughtAs(s)
                  /\ DOMAIN calc.price_map.items = {s}
                  /\ calc.price_map.items[s] # NoPrice) =>
          \A s \in DOMAIN calc.price_map.items :
              calc.out = cash + positions[last.res.symbol].qty * calc.price_map.items[s]

(***************************************************************************)
(* More claims about the live broker (checked under SpecBroker).           *)
(***************************************************************************)
\* the leg a submission carries for a stop or take-profit price given in
\* thousandths: the price in hundredths, or none
LegFor(p) == IF p = NoPrice THEN NoPrice ELSE (p + 5) \div 10

\* C37: the first submission of a live place_order call is a bracket order
\* exactly when a price was given together with a stop price or a take-profit
\* price, and then carries a leg for each of the two that was given, at that
\* price to 2 decimals, and none for the other; and when such a bracket is
\* followed by the market fallback, the fallback carries the same legs.
C37_BracketLegs ==
    (LiveCall /\ last.subs # <<>>) =>
        /\ last.subs[1].order_class = "bracket" <=>
              /\ last.args.price # NoPrice
              /\ (last.args.stop_price # NoPrice \/ last.args.take_price # NoPrice)
        /\ last.subs[1].order_class = "bracket" =>
              /\ last.subs[1].type = "limit"
              /\ last.subs[1].stop_loss = LegFor(last.args.stop_price)
              /\ last.subs[1].take_profit = LegFor(last.args.take_price)
        /\ last.subs[1].order_class # "bracket" =>
              /\ last.subs[1].stop_loss = NoPrice
              /\ last.subs[1].take_profit = NoPrice
        /\ (Len(last.subs) = 2 /\ last.subs[1].order_class = "bracket") =>
              /\ last.subs[2].stop_loss = last.subs[1].stop_loss
              /\ last.subs[2].take_profit = last.subs[1].take_profit

(***************************************************************************)
(* The Runner's order attempt (checked under SpecRunner).                  *)
(***************************************************************************)
\* C38: a tick makes at most one _execute_trade, which is at most two
\* Broker.place_order calls, the first of them raising its TypeError before
\* the implementation is entered; what reaches the implementation is one
\* place_order: at most one limit submission and, only after it, one market
\* fallback for the same order, at most one row in the trade log, and in the
\* simulated broker at most one order's change to the ledger.
C38_OneOrderPerAttempt ==
    [][(now' # now) =>
          /\ tick'.placeCalls \in {0, 2}
          /\ tick'.placeCalls = 0 =>
                (tick'.subs = <<>> /\ UNCHANGED <<cash, positions, trades>>)
          /\ Len(tick'.subs) <= 2
          /\ Len(tick'.subs) = 2 =>
                /\ tick'.subs[1].type = "limit"
                /\ tick'.subs[2].type = "market"
                /\ tick'.subs[2].symbol = tick'.subs[1].symbol
                /\ tick'.subs[2].side = tick'.subs[1].side
                /\ tick'.subs[2].qty = tick'.subs[1].qty
          /\ tick'.applied <= 2
          /\ tick'.order = "raised" => UNCHANGED <<cash, positions, trades>>
          /\ \/ trades' = trades
             \/ /\ tick'.order = "filled"
                /\ Len(trades') = Len(trades) + 1
                /\ SubSeq(trades', 1, Len(trades)) = trades
                /\ trades'[Len(trades')].qty <= tick'.qty
          /\ impl = "ALPACA" => UNCHANGED <<cash, positions>>
          /\ impl = "SIM" => tick'.subs = <<>>]_vars

\* one attempt that went through the rejected limit order and its market
\* fallback, and was logged once
C38_Witness ==
    /\ impl = "ALPACA"
    /\ tick.placeCalls = 2
    /\ tick.order = "filled"
    /\ Len(tick.subs) = 2
    /\ Len(trades) = 1
    /\ now = 2

====
